---------------------------- MODULE Spec2Model ----------------------------
(***************************************************************************)
(* A model of the OCR extraction pipeline of the healthcare-staffing       *)
(* application: src/src/utils/ocrService.ts (preprocessing, runOCR, the    *)
(* medication parser, confidence scoring, the NDC/UPC lookups and the      *)
(* useOCR hook) and src/src/components/PDFScanner.tsx.                     *)
(*                                                                         *)
(* Texts are TLA+ strings; a character is a string of length 1 and         *)
(* At(s, i) is the i-th character (1-based).  JavaScript regular           *)
(* expressions are values built with Ch, Cat, Alt, Rep, Grp, ... and       *)
(* matched by M, a backtracking matcher that lists the matches at a        *)
(* position in JavaScript's preference order.                              *)
(*                                                                         *)
(* The module holds several specifications over the same variables, one    *)
(* per part of the program:                                                *)
(*   SpecParse   one run of parseMedicationFromText, pattern by pattern    *)
(*   SpecMulti   parseMultipleMedications                                  *)
(*   SpecConf    getMedicationConfidence as used by useOCR.scanImage       *)
(*   SpecOCR     runOCR and preprocessImage                                *)
(*   SpecScan    useOCR.scanImage and PDFScanner.handleFileSelect          *)
(*   SpecLookup  lookupMedicationByNDC and lookupProductByUPC              *)
(* and two for the notification system that ships with the application:    *)
(*   SpecRls     the row level security policies of the notifications      *)
(*               table, migration by migration                             *)
(*   SpecNotify  NotificationService.subscribeToNotifications with the     *)
(*               useNotifications hook and the NotificationCenter          *)
(***************************************************************************)
EXTENDS Integers, Sequences, FiniteSets, TLC

VARIABLES
  \* parseMedicationFromText (one run)
  pText,          \* the argument `text`
  pStage,         \* the statement group the run is at
  pIdx,           \* index into the pattern list of a for-loop
  medication,     \* the local `medication`: a record of the assigned fields
  dosageMatch,    \* the local `dosageMatch`
  \* parseMultipleMedications
  mText,          \* the argument `text`
  mDone,          \* whether the call has returned
  mResult,        \* the returned list
  mClass,         \* the branch the call took: "single" or "multiple"
  mScored,        \* the list with the confidence useOCR adds to each candidate
  \* getMedicationConfidence, as useOCR.scanImage and PDFScanner apply it
  cMed,           \* the candidate `med`
  cEngine,        \* the confidence the recognition engine reported for the page
  cDone,          \* whether the candidate has been scored
  cConfidence,    \* the `confidence` added to the candidate
  \* one call of runOCR
  oImage,         \* what the image source holds: its kind, size and the sums
                  \* the pixel loops of detectRotation, detectBlur and the
                  \* edge count compute from it
  oPc,            \* where runOCR is suspended
  oWorker,        \* the recognition worker: "none", "live" or "terminated"
  oCalls,         \* how often worker.recognize and worker.terminate were invoked
  oCanvas,        \* which canvas contexts the browser handed out in img.onload
  oPre,           \* the outcome of preprocessImage
  oData,          \* result.data of worker.recognize
  oOut,           \* what runOCR returned or threw
  \* a mounted component that scans: the useOCR hook or PDFScanner
  sComponent,     \* which of the two
  scans,          \* per invocation of scanImage / handleFileSelect: its position
                  \* and its local variables
  isProcessing, error, ocrResult, medications, patientInfo,   \* the component's state
  progress,       \* PDFScanner's originalFile, processingStatus, currentPage, totalPages
  parsed,         \* for every text recognition can return, what the two parsers
                  \* return for it (pure functions of the text, evaluated once)
  \* one call of lookupMedicationByNDC or lookupProductByUPC
  lKind,          \* "ndc" or "upc"
  lCode,          \* the scanned code
  lPc,            \* where the call is suspended
  lCandidates,    \* possibleFormats / upcVariants
  lLoop,          \* which of the loops is running (lookupProductByUPC has two)
  lIdx,           \* the loop's position in lCandidates
  lQueries,       \* the queries issued, each with how it ended
  lResult,        \* what the call returned
  \* the notifications table and its row level security
  rlsApplied,     \* how many of the migrations have been run
  rlsPolicies,    \* the policies on the table
  rlsRows,        \* the rows: the user_id of each
  rlsSeen,        \* what the last SELECT returned, and to whom
  \* NotificationService and the components subscribed to it
  nTable,         \* the rows inserted while the application runs: the user_id of each
  nListeners,     \* NotificationService.listeners: per user id the set of
                  \* callbacks, or null where the map has no entry
  nChannels,      \* the realtime channels opened, each with the INSERT events
                  \* the server has sent on it and the handler has yet to run for
  nComps          \* the mounted components: their state and pending loads

parseVars == <<pText, pStage, pIdx, medication, dosageMatch>>
multiVars == <<mText, mDone, mResult, mClass, mScored>>
confVars == <<cMed, cEngine, cDone, cConfidence>>
ocrVars == <<oImage, oPc, oWorker, oCalls, oCanvas, oPre, oData, oOut>>
scanVars ==
  <<sComponent, scans, isProcessing, error, ocrResult, medications, patientInfo, progress, parsed>>
lookupVars == <<lKind, lCode, lPc, lCandidates, lLoop, lIdx, lQueries, lResult>>
rlsVars == <<rlsApplied, rlsPolicies, rlsRows, rlsSeen>>
notifyVars == <<nTable, nListeners, nChannels, nComps>>
vars ==
  <<parseVars, multiVars, confVars, ocrVars, scanVars, lookupVars, rlsVars, notifyVars>>
\* what the actions of one specification leave alone
othersParse == <<multiVars, confVars, ocrVars, scanVars, lookupVars, rlsVars, notifyVars>>
othersMulti == <<parseVars, confVars, ocrVars, scanVars, lookupVars, rlsVars, notifyVars>>
othersConf == <<parseVars, multiVars, ocrVars, scanVars, lookupVars, rlsVars, notifyVars>>
othersOcr == <<parseVars, multiVars, confVars, scanVars, lookupVars, rlsVars, notifyVars>>
othersScan == <<parseVars, multiVars, confVars, ocrVars, lookupVars, rlsVars, notifyVars>>
othersLookup == <<parseVars, multiVars, confVars, ocrVars, scanVars, rlsVars, notifyVars>>
othersRls == <<parseVars, multiVars, confVars, ocrVars, scanVars, lookupVars, notifyVars>>
othersNotify == <<parseVars, multiVars, confVars, ocrVars, scanVars, lookupVars, rlsVars>>

-----------------------------------------------------------------------------
(* Characters and strings                                                  *)

LowerSeq == "abcdefghijklmnopqrstuvwxyz"
UpperSeq == "ABCDEFGHIJKLMNOPQRSTUVWXYZ"

At(s, i) == SubSeq(s, i, i)

Digits == {"0", "1", "2", "3", "4", "5", "6", "7", "8", "9"}
Lowers == {At(LowerSeq, k) : k \in 1..Len(LowerSeq)}
Uppers == {At(UpperSeq, k) : k \in 1..Len(UpperSeq)}
Letters == Lowers \cup Uppers
\* \w and \s of a JavaScript regular expression
WordChars == Letters \cup Digits \cup {"_"}
Spaces == {" ", "\n", "\t", "\r", "\f"}

\* String.prototype.toLowerCase, one character
LowerOf(c) ==
  IF c \in Uppers
  THEN At(LowerSeq, CHOOSE k \in 1..Len(UpperSeq) : At(UpperSeq, k) = c)
  ELSE c

\* String.prototype.toLowerCase (by halves, to keep the evaluation shallow)
RECURSIVE ToLowerCase(_)
ToLowerCase(s) ==
  IF Len(s) = 0 THEN ""
  ELSE IF Len(s) = 1 THEN LowerOf(s)
  ELSE ToLowerCase(SubSeq(s, 1, Len(s) \div 2))
       \o ToLowerCase(SubSeq(s, Len(s) \div 2 + 1, Len(s)))

\* String.prototype.includes
Includes(s, sub) ==
  \E i \in 1..(Len(s) + 1) : i + Len(sub) - 1 <= Len(s) /\ SubSeq(s, i, i + Len(sub) - 1) = sub

\* String.prototype.trim
RECURSIVE TrimStart(_), TrimEnd(_)
TrimStart(s) ==
  IF Len(s) > 0 /\ At(s, 1) \in Spaces THEN TrimStart(SubSeq(s, 2, Len(s))) ELSE s
TrimEnd(s) ==
  IF Len(s) > 0 /\ At(s, Len(s)) \in Spaces THEN TrimEnd(SubSeq(s, 1, Len(s) - 1)) ELSE s
Trim(s) == TrimEnd(TrimStart(s))

\* String.prototype.split on one separator character
RECURSIVE SplitOn(_, _, _)
SplitOn(s, sep, from) ==
  LET hits == {i \in from..Len(s) : At(s, i) = sep}
  IN IF hits = {} THEN <<SubSeq(s, from, Len(s))>>
     ELSE LET i == CHOOSE h \in hits : \A g \in hits : h <= g
          IN <<SubSeq(s, from, i - 1)>> \o SplitOn(s, sep, i + 1)

\* Array.prototype.filter and map over a sequence of strings
RECURSIVE NonEmpty(_)
NonEmpty(q) ==
  IF q = << >> THEN << >>
  ELSE (IF Head(q) # "" THEN <<Head(q)>> ELSE << >>) \o NonEmpty(Tail(q))

-----------------------------------------------------------------------------
(* Regular expressions                                                     *)

NoCaps == << <<0, 0>>, <<0, 0>>, <<0, 0>> >>

Ch(S) == [t |-> "set", s |-> S]             \* one character of S
NCh(S) == [t |-> "nset", s |-> S]           \* one character not in S
Cat(a) == [t |-> "cat", a |-> a]            \* a[1] a[2] ...
Alt(a) == [t |-> "alt", a |-> a]            \* a[1] | a[2] | ...
Rep(r, lo, hi) == [t |-> "rep", r |-> r, lo |-> lo, hi |-> hi]  \* r{lo,hi}, greedy
Grp(k, r) == [t |-> "grp", k |-> k, r |-> r] \* capture group k
Bol(m) == [t |-> "bol", m |-> m]            \* ^ (m: the m flag)
Eol(m) == [t |-> "eol", m |-> m]            \* $ (m: the m flag)
WB == [t |-> "wb"]                          \* \b
\* hi = -1: no upper limit
Star(r) == Rep(r, 0, -1)
Plus(r) == Rep(r, 1, -1)
Opt(r) == Rep(r, 0, 1)
\* a literal, case-sensitive and under the i flag
Lit(str) == [t |-> "lit", str |-> str, i |-> FALSE]
LitI(str) == [t |-> "lit", str |-> str, i |-> TRUE]
S1 == Plus(Ch(Spaces))                      \* \s+
S0 == Star(Ch(Spaces))                      \* \s*
D1 == Plus(Ch(Digits))                      \* \d+

IsWordAt(s, i) == i >= 1 /\ i <= Len(s) /\ At(s, i) \in WordChars

\* whether the one-character expression r (Ch or NCh) matches s[j]
OneChar(r, s, j) ==
  j <= Len(s) /\ (IF r.t = "set" THEN At(s, j) \in r.s ELSE At(s, j) \notin r.s)

\* r{lo,hi} for a one-character r: the longest run first, then shorter ones
MRun(r, lo, hi, s, i, c) ==
  LET stop == CHOOSE j \in i..(Len(s) + 1) :
                /\ ~OneChar(r, s, j)
                /\ \A k \in i..(j - 1) : OneChar(r, s, k)
      run == stop - i
      n == IF hi >= 0 /\ run > hi THEN hi ELSE run
  IN IF n < lo THEN << >> ELSE [k \in 1..(n - lo + 1) |-> <<i + n - (k - 1), c>>]

\* M(re, s, i, c): the matches of re in s starting at position i with the
\* captures c so far, as a sequence of <<end, captures>> in the order a
\* backtracking matcher tries them (the first is the one JavaScript reports).
RECURSIVE M(_, _, _, _), MSeq(_, _, _, _, _), MSeqEach(_, _, _, _, _),
          MAlt(_, _, _, _, _), MRep(_, _, _, _, _, _), MRepEach(_, _, _, _, _, _, _)
M(re, s, i, c) ==
  CASE re.t \in {"set", "nset"} ->
         IF OneChar(re, s, i) THEN << <<i + 1, c>> >> ELSE << >>
    [] re.t = "lit" ->
         IF /\ i + Len(re.str) - 1 <= Len(s)
            /\ \A k \in 1..Len(re.str) :
                 IF re.i THEN LowerOf(At(s, i + k - 1)) = LowerOf(At(re.str, k))
                 ELSE At(s, i + k - 1) = At(re.str, k)
         THEN << <<i + Len(re.str), c>> >> ELSE << >>
    [] re.t = "cat" -> MSeq(re.a, 1, s, i, c)
    [] re.t = "alt" -> MAlt(re.a, 1, s, i, c)
    [] re.t = "rep" ->
         IF re.r.t \in {"set", "nset"} THEN MRun(re.r, re.lo, re.hi, s, i, c)
         ELSE MRep(re.r, re.lo, re.hi, s, i, c)
    [] re.t = "grp" ->
         LET rs == M(re.r, s, i, c)
         IN [n \in 1..Len(rs) |-> <<rs[n][1], [rs[n][2] EXCEPT ![re.k] = <<i, rs[n][1]>>]>>]
    [] re.t = "bol" ->
         IF i = 1 \/ (re.m /\ At(s, i - 1) = "\n") THEN << <<i, c>> >> ELSE << >>
    [] re.t = "eol" ->
         IF i = Len(s) + 1 \/ (re.m /\ At(s, i) = "\n") THEN << <<i, c>> >> ELSE << >>
    [] re.t = "wb" ->
         IF IsWordAt(s, i - 1) # IsWordAt(s, i) THEN << <<i, c>> >> ELSE << >>
MSeqEach(rs, n, a, k, s) ==
  IF n > Len(rs) THEN << >>
  ELSE MSeq(a, k, s, rs[n][1], rs[n][2]) \o MSeqEach(rs, n + 1, a, k, s)
MSeq(a, k, s, i, c) ==
  IF k > Len(a) THEN << <<i, c>> >> ELSE MSeqEach(M(a[k], s, i, c), 1, a, k + 1, s)
MAlt(a, k, s, i, c) ==
  IF k > Len(a) THEN << >> ELSE M(a[k], s, i, c) \o MAlt(a, k + 1, s, i, c)
MRepEach(rs, n, r, lo, hi, s, i) ==
  IF n > Len(rs) THEN << >>
  ELSE (IF rs[n][1] > i THEN MRep(r, lo, hi, s, rs[n][1], rs[n][2]) ELSE << >>)
       \o MRepEach(rs, n + 1, r, lo, hi, s, i)
MRep(r, lo, hi, s, i, c) ==
  IF hi = 0 THEN << <<i, c>> >>
  ELSE MRepEach(M(r, s, i, c), 1, r, IF lo > 0 THEN lo - 1 ELSE 0,
                IF hi > 0 THEN hi - 1 ELSE hi, s, i)
       \o (IF lo = 0 THEN << <<i, c>> >> ELSE << >>)

\* The result of String.prototype.match without the g flag: null, or the
\* leftmost match with its index and captures.  SearchFrom starts at p.
NoMatch == [found |-> FALSE, index |-> 0, end |-> 0, caps |-> NoCaps]
MatchAt(re, s, p) ==
  CHOOSE r \in {[found |-> TRUE, index |-> p, end |-> rs[1][1], caps |-> rs[1][2]] :
                  rs \in {M(re, s, p, NoCaps)}} : TRUE
SearchFrom(re, s, p) ==
  LET starts == {q \in p..(Len(s) + 1) : Len(M(re, s, q, NoCaps)) > 0}
  IN IF starts = {} THEN NoMatch
     ELSE MatchAt(re, s, CHOOSE q \in starts : \A o \in starts : q <= o)
Match(s, re) == SearchFrom(re, s, 1)
\* RegExp.prototype.test
Test(re, s) == Match(s, re).found
\* match[0] and match[k]; an unmatched group is undefined, which is falsy as "" is
Whole(s, m) == SubSeq(s, m.index, m.end - 1)
Cap(s, m, k) ==
  IF m.caps[k] = <<0, 0>> THEN "" ELSE SubSeq(s, m.caps[k][1], m.caps[k][2] - 1)
\* the number of matches of String.prototype.match with the g flag
RECURSIVE CountFrom(_, _, _)
CountFrom(re, s, p) ==
  LET m == SearchFrom(re, s, p)
  IN IF ~m.found THEN 0
     ELSE 1 + CountFrom(re, s, IF m.end > m.index THEN m.end ELSE m.end + 1)
MatchAllCount(s, re) == CountFrom(re, s, 1)

-----------------------------------------------------------------------------
(* parseMedicationFromText                                                 *)

Fields == {"name", "dosage", "frequency", "route", "prescriber", "quantity",
           "refills", "instructions"}

\* `const medication: Partial<MedicationInfo> = {}` and `medication.f = v`
EmptyMedication == [f \in {} |-> ""]
Assign(med, f, v) == [g \in DOMAIN med \cup {f} |-> IF g = f THEN v ELSE med[g]]
\* the truthiness of medication.f: assigned and not the empty string
Truthy(med, f) == f \in DOMAIN med /\ med[f] # ""

\* \d+(?:\.\d+)?  and  mg|mcg|g|ml|units?
NumberRe == Cat(<<D1, Opt(Cat(<<Ch({"."}), D1>>))>>)
UnitRe == Alt(<<LitI("mg"), LitI("mcg"), LitI("g"), LitI("ml"),
                Cat(<<LitI("unit"), Opt(LitI("s"))>>)>>)

DosagePatterns == <<
  Cat(<<Ch({"("}), Grp(1, NumberRe), S0, UnitRe, Ch({")"})>>),
  Cat(<<Grp(1, NumberRe), S0, UnitRe, WB>>) >>

FrequencyPatterns == <<
  Cat(<<LitI("take"), S1, D1, S1, LitI("tablet")>>),
  Cat(<<WB, Grp(1, Alt(<<LitI("once"), LitI("twice"),
                         Cat(<<LitI("three time"), Opt(LitI("s"))>>)>>)),
        S1, Alt(<<LitI("daily"), LitI("per day"), LitI("a day"),
                  LitI("in the morning"), LitI("in the evening")>>)>>),
  Cat(<<WB, Grp(1, Alt(<<LitI("QD"), LitI("BID"), LitI("TID"), LitI("QID"),
                         Cat(<<LitI("Q"), D1, LitI("H")>>)>>)), WB>>),
  Cat(<<Alt(<<LitI("in the"), LitI("every")>>), S1,
        Grp(1, Alt(<<LitI("morning"), LitI("evening"), LitI("afternoon"),
                     LitI("night")>>))>>) >>

RoutePatterns == <<
  Cat(<<LitI("by"), S1,
        Grp(1, Alt(<<LitI("mouth"), LitI("injection"), LitI("inhalation")>>))>>),
  Cat(<<WB, Grp(1, Alt(<<LitI("oral"), LitI("topical"), LitI("injection"),
                         LitI("IV"), LitI("IM"), LitI("sublingual"),
                         LitI("transdermal"), LitI("inhalation"),
                         LitI("ophthalmic"), LitI("otic")>>)), WB>>) >>

\* under the i flag [A-Z] and [a-z] both match every letter
PrescriberPatterns == <<
  Cat(<<Alt(<<LitI("Dr."), LitI("Doctor")>>), S1,
        Opt(Grp(1, Cat(<<Ch(Letters), Ch({"."}), S0>>))),
        Grp(2, Cat(<<Ch(Letters), Plus(Ch(Letters)), S1,
                     Ch(Letters), Plus(Ch(Letters))>>))>>),
  Cat(<<Grp(1, Cat(<<Ch(Letters), Plus(Ch(Letters)), S1, Ch(Letters), S1,
                     Ch(Letters), Plus(Ch(Letters))>>)),
        S1, Alt(<<LitI("MD"), LitI("RPh"), LitI("NU"), LitI("par F")>>)>>) >>

QuantityRe ==
  Cat(<<Alt(<<LitI("qty"), LitI("quantity")>>), S0, Opt(Ch({":"})), S0, Grp(1, D1)>>)

RefillsRe ==
  Cat(<<Alt(<<Cat(<<LitI("refill"), Opt(LitI("s"))>>), LitI("no refills")>>),
        S0, Opt(Ch({":"})), S0, Grp(1, Alt(<<D1, LitI("remaining")>>))>>)

InstructionRe ==
  Cat(<<LitI("take"), S1, D1, S1, LitI("tablet"), Star(NCh({"."})), Ch({"."})>>)

\* /\b([a-z]+[A-Z][A-Za-z]+)\b/, case-sensitive
MixedCasePattern ==
  Cat(<<WB, Grp(1, Cat(<<Plus(Ch(Lowers)), Ch(Uppers), Plus(Ch(Letters))>>)), WB>>)

\* /([A-Z][A-Za-z]+(?:\s+[A-Z]?[A-Za-z]+){0,2})\s*$/i
NamePattern ==
  Cat(<<Grp(1, Cat(<<Ch(Letters), Plus(Ch(Letters)),
                     Rep(Cat(<<S1, Opt(Ch(Letters)), Plus(Ch(Letters))>>), 0, 2)>>)),
        S0, Eol(FALSE)>>)

ExcludePatterns == <<
  LitI("pharmacy"), LitI("hospital"), LitI("research"), LitI("children"), LitI("jude"),
  Cat(<<Rep(Ch(Digits), 3, 3), Opt(Ch({"-"} \cup Spaces)), Rep(Ch(Digits), 3, 3),
        Opt(Ch({"-"} \cup Spaces)), Rep(Ch(Digits), 4, 4)>>),
  Cat(<<Bol(FALSE), D1, S1, Ch(Letters), Plus(Ch(Letters)), S1,
        Grp(1, Alt(<<LitI("Place"), LitI("Street"), LitI("Road"), LitI("Ave"),
                     LitI("Dr")>>))>>),
  Cat(<<LitI("Rx"), S0, Opt(Ch({":", "#"})), S0, D1>>),
  LitI("written"), LitI("filled"), LitI("test"),
  LitI("patient"), LitI("discard"), Cat(<<LitI("commonly"), S1, LitI("known")>>),
  Cat(<<LitI("no"), S1, LitI("refills")>>),
  Cat(<<Bol(FALSE), LitI("take"), S1, D1>>),
  Cat(<<Bol(FALSE), LitI("by"), S1, LitI("mouth")>>),
  LitI("MRN"), LitI("mersin"), LitI("TET") >>

ThreeLettersRe == Rep(Ch(Letters), 3, -1)

CommonlyKnownRe ==
  Cat(<<LitI("commonly"), S1, LitI("known"), S1, LitI("as"), S1,
        Grp(1, Plus(Ch(Letters)))>>)

\* text.split('\n').map(line => line.trim()).filter(Boolean)
TextLines(text) ==
  LET raw == SplitOn(text, "\n", 1)
  IN NonEmpty([k \in 1..Len(raw) |-> Trim(raw[k])])

\* (line.match(/[A-Za-z]/g) || []).length
LetterCount(line) == Cardinality({i \in 1..Len(line) : At(line, i) \in Letters})

\* the predicate of lines.find(...)
IsDrugNameLine(line) ==
  /\ Test(ThreeLettersRe, line)
  /\ ~(Len(line) < 3 \/ Len(line) > 40)
  /\ \A k \in 1..Len(ExcludePatterns) : ~Test(ExcludePatterns[k], line)
  /\ 10 * LetterCount(line) > 6 * Len(line)

\* line.replace(/^\W+|\W+$/g, '')
RECURSIVE StripNonWordStart(_), StripNonWordEnd(_)
StripNonWordStart(s) ==
  IF Len(s) > 0 /\ At(s, 1) \notin WordChars
  THEN StripNonWordStart(SubSeq(s, 2, Len(s))) ELSE s
StripNonWordEnd(s) ==
  IF Len(s) > 0 /\ At(s, Len(s)) \notin WordChars
  THEN StripNonWordEnd(SubSeq(s, 1, Len(s) - 1)) ELSE s
StripNonWord(s) == StripNonWordEnd(StripNonWordStart(s))

\* the four isUsedIn... tests of the first two name strategies
IsConsumed(med, candidateName) ==
  LET candidateLower == ToLowerCase(candidateName)
  IN \/ Truthy(med, "frequency") /\ Includes(ToLowerCase(med["frequency"]), candidateLower)
     \/ Truthy(med, "route") /\ Includes(ToLowerCase(med["route"]), candidateLower)
     \/ Truthy(med, "instructions")
          /\ Includes(ToLowerCase(med["instructions"]), candidateLower)
     \/ Truthy(med, "quantity") /\ Includes(candidateLower, ToLowerCase(med["quantity"]))

\* A run is a record st = [text, stage, idx, med, dm]; each operator below is
\* one statement group of the function, from st to the state after it.
StartParse(text) ==
  [text |-> text, stage |-> "dosage", idx |-> 1, med |-> EmptyMedication, dm |-> NoMatch]

\* where a for-loop over `patterns` goes when pattern st.idx did not match
NextPattern(st, patterns, after) ==
  IF st.idx < Len(patterns) THEN [st EXCEPT !.idx = st.idx + 1]
  ELSE [st EXCEPT !.stage = after, !.idx = 1]
\* `break`
Break(st, after) == [st EXCEPT !.stage = after, !.idx = 1]

DosageStep(st) ==
  LET match == Match(st.text, DosagePatterns[st.idx])
      m0 == Whole(st.text, match)
      inner == Match(m0, NumberRe)
      number == IF Cap(st.text, match, 1) # "" THEN Cap(st.text, match, 1)
                ELSE IF inner.found THEN Whole(m0, inner) ELSE "undefined"
      u == Match(m0, UnitRe)
      unit == IF u.found THEN Whole(m0, u) ELSE "undefined"
  IN IF match.found
     THEN Break([st EXCEPT !.dm = match,
                           !.med = Assign(st.med, "dosage", number \o " " \o unit)],
                "frequency")
     ELSE NextPattern(st, DosagePatterns, "frequency")

FrequencyStep(st) ==
  LET match == Match(st.text, FrequencyPatterns[st.idx])
  IN IF match.found
     THEN Break([st EXCEPT !.med = Assign(st.med, "frequency", Trim(Whole(st.text, match)))],
                "route")
     ELSE NextPattern(st, FrequencyPatterns, "route")

\* a route taken from the pattern that matches earliest in the text
RouteStepEarliestPosition(st) ==
  LET hits == {k \in 1..Len(RoutePatterns) : Test(RoutePatterns[k], st.text)}
      first == CHOOSE k \in hits :
                 \A j \in hits : Match(st.text, RoutePatterns[k]).index
                                   <= Match(st.text, RoutePatterns[j]).index
      match == Match(st.text, RoutePatterns[first])
      value == IF Cap(st.text, match, 1) # "" THEN Cap(st.text, match, 1)
               ELSE Trim(Whole(st.text, match))
  IN IF hits # {}
     THEN Break([st EXCEPT !.med = Assign(st.med, "route", value)], "prescriber")
     ELSE NextPattern(st, RoutePatterns, "prescriber")

RouteStep(st) ==
  LET match == Match(st.text, RoutePatterns[st.idx])
      value == IF Cap(st.text, match, 1) # "" THEN Cap(st.text, match, 1)
               ELSE Trim(Whole(st.text, match))
  IN IF match.found
     THEN Break([st EXCEPT !.med = Assign(st.med, "route", value)], "prescriber")
     ELSE NextPattern(st, RoutePatterns, "prescriber")

PrescriberStep(st) ==
  LET match == Match(st.text, PrescriberPatterns[st.idx])
  IN IF match.found
     THEN Break([st EXCEPT !.med = Assign(st.med, "prescriber", Trim(Whole(st.text, match)))],
                "quantity")
     ELSE NextPattern(st, PrescriberPatterns, "quantity")

QuantityStep(st) ==
  LET quantityMatch == Match(st.text, QuantityRe)
  IN [st EXCEPT !.stage = "refills",
                !.med = IF quantityMatch.found
                        THEN Assign(st.med, "quantity", Cap(st.text, quantityMatch, 1))
                        ELSE st.med]

RefillsStep(st) ==
  LET refillsMatch == Match(st.text, RefillsRe)
  IN [st EXCEPT !.stage = "instructions",
                !.med = IF refillsMatch.found
                        THEN Assign(st.med, "refills", Cap(st.text, refillsMatch, 1))
                        ELSE st.med]

InstructionsStep(st) ==
  LET instructionMatch == Match(st.text, InstructionRe)
  IN [st EXCEPT !.stage = "mixedCase",
                !.med = IF instructionMatch.found
                        THEN Assign(st.med, "instructions",
                                    Trim(Whole(st.text, instructionMatch)))
                        ELSE st.med]

\* name strategy 1: a mixed-case token
MixedCaseStep(st) ==
  LET mixedCaseMatch == Match(st.text, MixedCasePattern)
      candidateName == Trim(Cap(st.text, mixedCaseMatch, 1))
  IN [st EXCEPT !.stage = "beforeDosage",
                !.med = IF mixedCaseMatch.found /\ Cap(st.text, mixedCaseMatch, 1) # ""
                           /\ ~IsConsumed(st.med, candidateName)
                        THEN Assign(st.med, "name", candidateName)
                        ELSE st.med]

\* name strategy 2: the words before the dosage
BeforeDosageStep(st) ==
  LET textBeforeDosage == Trim(SubSeq(st.text, 1, st.dm.index - 1))
      nameMatch == Match(textBeforeDosage, NamePattern)
      candidateName == Trim(Cap(textBeforeDosage, nameMatch, 1))
  IN [st EXCEPT !.stage = "nameLine",
                !.med = IF ~Truthy(st.med, "name") /\ st.dm.found
                           /\ nameMatch.found /\ Cap(textBeforeDosage, nameMatch, 1) # ""
                           /\ ~IsConsumed(st.med, candidateName)
                        THEN Assign(st.med, "name", candidateName)
                        ELSE st.med]

\* name strategy 3: the first qualifying line
NameLineStep(st) ==
  LET lines == TextLines(st.text)
      hits == {k \in 1..Len(lines) : IsDrugNameLine(lines[k])}
      drugNameLine == lines[CHOOSE k \in hits : \A j \in hits : k <= j]
  IN [st EXCEPT !.stage = "commonlyKnown",
                !.med = IF ~Truthy(st.med, "name") /\ hits # {}
                        THEN Assign(st.med, "name", Trim(StripNonWord(drugNameLine)))
                        ELSE st.med]

\* name strategy 4 without its `!medication.name` test
CommonlyKnownStepUnguarded(st) ==
  LET commonlyKnownMatch == Match(st.text, CommonlyKnownRe)
  IN [st EXCEPT !.stage = "done",
                !.med = IF commonlyKnownMatch.found
                        THEN Assign(st.med, "name", Cap(st.text, commonlyKnownMatch, 1))
                        ELSE st.med]

\* name strategy 4: "commonly known as <word>"
CommonlyKnownStep(st) ==
  LET commonlyKnownMatch == Match(st.text, CommonlyKnownRe)
  IN [st EXCEPT !.stage = "done",
                !.med = IF ~Truthy(st.med, "name") /\ commonlyKnownMatch.found
                        THEN Assign(st.med, "name", Cap(st.text, commonlyKnownMatch, 1))
                        ELSE st.med]

ParseStep(st) ==
  CASE st.stage = "dosage" -> DosageStep(st)
    [] st.stage = "frequency" -> FrequencyStep(st)
    [] st.stage = "route" -> RouteStep(st)
    [] st.stage = "prescriber" -> PrescriberStep(st)
    [] st.stage = "quantity" -> QuantityStep(st)
    [] st.stage = "refills" -> RefillsStep(st)
    [] st.stage = "instructions" -> InstructionsStep(st)
    [] st.stage = "mixedCase" -> MixedCaseStep(st)
    [] st.stage = "beforeDosage" -> BeforeDosageStep(st)
    [] st.stage = "nameLine" -> NameLineStep(st)
    [] st.stage = "commonlyKnown" -> CommonlyKnownStep(st)

\* the whole function: the steps in order, then `return medication`
RECURSIVE RunParse(_)
RunParse(st) ==
  IF st.stage = "done" THEN st.med
  ELSE CHOOSE med \in {RunParse(next) : next \in {ParseStep(st)}} : TRUE
ParseMedicationFromText(text) == RunParse(StartParse(text))

-----------------------------------------------------------------------------
(* parseMultipleMedications                                                *)

\* TLA+ strings are ASCII.  These characters stand for the non-ASCII ones of
\* the program text and of the inputs; no input uses them otherwise.
U2022 == "@"    \* U+2022 BULLET
U201A == "{"    \* U+201A SINGLE LOW-9 QUOTATION MARK
U00C4 == "}"    \* U+00C4 LATIN CAPITAL LETTER A WITH DIAERESIS
U00A2 == "|"    \* U+00A2 CENT SIGN

\* /Rx\s*[:#]?\s*\d{5,}/gi
RxNumberRe == Cat(<<LitI("Rx"), S0, Opt(Ch({":", "#"})), S0, Rep(Ch(Digits), 5, -1)>>)
\* the character class of the bullet test as the source file spells it
BulletRe == Cat(<<Bol(TRUE), Ch({"*", U201A, U00C4, U00A2}), Ch(Spaces)>>)
\* /^\d+\.\s+[A-Z]/m
NumberedListRe == Cat(<<Bol(TRUE), D1, Ch({"."}), S1, Ch(Uppers)>>)
\* /(?:\n\s*\n\s*\n|\d+\.\s+[A-Z])/
SectionSplitRe ==
  Alt(<<Cat(<<Ch({"\n"}), S0, Ch({"\n"}), S0, Ch({"\n"})>>),
        Cat(<<D1, Ch({"."}), S1, Ch(Uppers)>>)>>)

\* String.prototype.split with a regular expression that has no group
RECURSIVE SplitRe(_, _, _)
SplitRe(s, re, from) ==
  LET m == SearchFrom(re, s, from)
  IN IF ~m.found \/ m.index > Len(s) \/ m.end = m.index
     THEN <<SubSeq(s, from, Len(s))>>
     ELSE <<SubSeq(s, from, m.index - 1)>> \o SplitRe(s, re, m.end)

HasMultipleRxNumbers(text) == MatchAllCount(text, RxNumberRe) > 1
HasBulletPoints(text) == Test(BulletRe, text)
HasNumberedList(text) == Test(NumberedListRe, text)
IsMultiple(text) ==
  HasMultipleRxNumbers(text) \/ HasBulletPoints(text) \/ HasNumberedList(text)

\* a single branch that returns whatever was extracted
KeepSingleAlways(singleMed) == <<singleMed>>

\* the single branch
KeepSingle(singleMed) ==
  IF Truthy(singleMed, "name") \/ Truthy(singleMed, "dosage")
     \/ Truthy(singleMed, "frequency")
  THEN <<singleMed>> ELSE << >>
ParseSingle(text) ==
  CHOOSE r \in {KeepSingle(singleMed) : singleMed \in {ParseMedicationFromText(text)}} : TRUE

\* sections.forEach(section => ...)
KeepSection(med) ==
  IF Truthy(med, "name")
     /\ (Truthy(med, "dosage") \/ Truthy(med, "frequency") \/ Truthy(med, "route"))
  THEN <<med>> ELSE << >>
\* a section handler without the length test
SectionMedicationAnyLength(section) ==
  LET trimmed == Trim(section)
  IN CHOOSE r \in {KeepSection(med) : med \in {ParseMedicationFromText(trimmed)}} : TRUE

SectionMedication(section) ==
  LET trimmed == Trim(section)
  IN IF Len(trimmed) > 20
     THEN CHOOSE r \in {KeepSection(med) : med \in {ParseMedicationFromText(trimmed)}} : TRUE
     ELSE << >>
RECURSIVE SectionMedications(_)
SectionMedications(sections) ==
  IF sections = << >> THEN << >>
  ELSE SectionMedication(Head(sections)) \o SectionMedications(Tail(sections))

\* the return when no section was kept
MultipleFallback(text) == <<ParseMedicationFromText(text)>>

ParseMultipleMedications(text) ==
  IF ~IsMultiple(text) THEN ParseSingle(text)
  ELSE CHOOSE r \in
         {IF Len(meds) > 0 THEN meds ELSE MultipleFallback(text) :
            meds \in {SectionMedications(SplitRe(text, SectionSplitRe, 1))}} : TRUE

-----------------------------------------------------------------------------
(* Input texts: up to MaxLines distinct lines of LineVocabulary, joined by *)
(* newlines.                                                               *)

MaxLines == 2

LineVocabulary == <<
  "Lisinopril 10mg",
  "Take 1 tablet by mouth once daily",
  "Qty: 30",
  "Refills: 2",
  "cloNIDine (0.1 mg) BID oral",
  "Take 2 tablets every morning. Dr. John Smith",
  "commonly known as Zestril",
  "* x",
  "1. Metformin 500 mg twice daily",
  "refills 22222" >>

RECURSIVE JoinLines(_)
JoinLines(q) ==
  IF Len(q) = 1 THEN LineVocabulary[q[1]]
  ELSE LineVocabulary[q[1]] \o "\n" \o JoinLines(Tail(q))

LineChoices ==
  {q \in UNION {[1..n -> 1..Len(LineVocabulary)] : n \in 1..MaxLines} :
     \A i, j \in DOMAIN q : i # j => q[i] # q[j]}

\* whole labels: the bottle label and the prescription list of the documented
\* scenarios, the list with its prescriptions in sections of their own, a
\* label with two matching patterns for each field, a bare frequency, and a
\* bulleted line
Labels ==
  {"Lisinopril 10mg\nTake 1 tablet by mouth once daily\nQty: 30\nRefills: 2",
   "Rx# 12345 Lisinopril 10mg once daily\nRx# 67890 Metformin 500 mg twice daily",
   "Rx# 12345 Lisinopril 10mg once daily\n\n\nAspirin 81 mg\n\n\nRx# 67890 Metformin 500 mg twice daily",
   "Ann B Lee MD 10mg BID oral\nTake 1 tablet by mouth (5 mg) Dr. John Smith",
   "once daily",
   U2022 \o " Aspirin 81 mg daily"}

Texts == {JoinLines(q) : q \in LineChoices} \cup Labels

-----------------------------------------------------------------------------
(* SpecParse: one run of parseMedicationFromText over a text of Texts.     *)

ParseIdle ==
  /\ pText = ""
  /\ pStage = "idle"
  /\ pIdx = 1
  /\ medication = EmptyMedication
  /\ dosageMatch = NoMatch

MultiIdle ==
  /\ mText = ""
  /\ mDone = FALSE
  /\ mResult = << >>
  /\ mClass = ""
  /\ mScored = << >>

ConfIdle ==
  /\ cMed = EmptyMedication
  /\ cEngine = 0
  /\ cDone = FALSE
  /\ cConfidence = 0

\* a promise or call that has not settled
Pending == [status |-> "pending"]

OcrIdle ==
  /\ oImage = [kind |-> "none"]
  /\ oPc = "idle"
  /\ oWorker = "none"
  /\ oCalls = [recognize |-> 0, terminate |-> 0]
  /\ oCanvas = [ctx |-> FALSE, rotatedCtx |-> FALSE, testCtxs |-> {}]
  /\ oPre = Pending
  /\ oData = [text |-> "", confidence |-> 0]
  /\ oOut = Pending

\* null, and a value that is not null
Null == << >>
Some(v) == <<v>>

ScanIdle ==
  /\ sComponent = "none"
  /\ scans = << >>
  /\ isProcessing = FALSE
  /\ error = Null
  /\ ocrResult = Null
  /\ medications = << >>
  /\ patientInfo = Null
  /\ progress = [originalFile |-> 0, processingStatus |-> "", currentPage |-> 0, totalPages |-> 0]
  /\ parsed = << >>

LookupIdle ==
  /\ lKind = "none"
  /\ lCode = ""
  /\ lPc = "idle"
  /\ lCandidates = << >>
  /\ lLoop = 1
  /\ lIdx = 0
  /\ lQueries = << >>
  /\ lResult = Pending

\* before the first migration: no table
RlsIdle ==
  /\ rlsApplied = 0
  /\ rlsPolicies = {}
  /\ rlsRows = << >>
  /\ rlsSeen = Null

\* nothing mounted, nothing inserted
NotifyIdle ==
  /\ nTable = << >>
  /\ nListeners = [u \in {"u1", "u2"} |-> Null]
  /\ nChannels = << >>
  /\ nComps = << >>

\* every part of the state but that of specification `own` is idle
OthersIdle(own) ==
  /\ IF own = "parse" THEN TRUE ELSE ParseIdle
  /\ IF own = "multi" THEN TRUE ELSE MultiIdle
  /\ IF own = "conf" THEN TRUE ELSE ConfIdle
  /\ IF own = "ocr" THEN TRUE ELSE OcrIdle
  /\ IF own = "scan" THEN TRUE ELSE ScanIdle
  /\ IF own = "lookup" THEN TRUE ELSE LookupIdle
  /\ IF own = "rls" THEN TRUE ELSE RlsIdle
  /\ IF own = "notify" THEN TRUE ELSE NotifyIdle

ParseState ==
  [text |-> pText, stage |-> pStage, idx |-> pIdx, med |-> medication, dm |-> dosageMatch]

SetParse(st) ==
  /\ pText' = st.text
  /\ pStage' = st.stage
  /\ pIdx' = st.idx
  /\ medication' = st.med
  /\ dosageMatch' = st.dm

InitParse ==
  /\ pText \in Texts
  /\ pStage = "dosage"
  /\ pIdx = 1
  /\ medication = EmptyMedication
  /\ dosageMatch = NoMatch
  /\ OthersIdle("parse")

\* one action per statement group of the function
NextParse ==
  \/ pStage = "dosage" /\ SetParse(DosageStep(ParseState)) /\ UNCHANGED othersParse
  \/ pStage = "frequency" /\ SetParse(FrequencyStep(ParseState)) /\ UNCHANGED othersParse
  \/ pStage = "route" /\ SetParse(RouteStep(ParseState)) /\ UNCHANGED othersParse
  \/ pStage = "prescriber" /\ SetParse(PrescriberStep(ParseState)) /\ UNCHANGED othersParse
  \/ pStage = "quantity" /\ SetParse(QuantityStep(ParseState)) /\ UNCHANGED othersParse
  \/ pStage = "refills" /\ SetParse(RefillsStep(ParseState)) /\ UNCHANGED othersParse
  \/ pStage = "instructions" /\ SetParse(InstructionsStep(ParseState)) /\ UNCHANGED othersParse
  \/ pStage = "mixedCase" /\ SetParse(MixedCaseStep(ParseState)) /\ UNCHANGED othersParse
  \/ pStage = "beforeDosage" /\ SetParse(BeforeDosageStep(ParseState)) /\ UNCHANGED othersParse
  \/ pStage = "nameLine" /\ SetParse(NameLineStep(ParseState)) /\ UNCHANGED othersParse
  \/ pStage = "commonlyKnown" /\ SetParse(CommonlyKnownStep(ParseState)) /\ UNCHANGED othersParse

SpecParse == InitParse /\ [][NextParse]_vars

-----------------------------------------------------------------------------
(* getMedicationConfidence, and SpecConf: the scoring of one candidate     *)

\* the fields the function tests, in its order, and what each adds
ScoredFields == <<"name", "dosage", "frequency", "route", "quantity", "instructions">>
Weight ==
  [name |-> 30, dosage |-> 25, frequency |-> 20, route |-> 10, quantity |-> 10,
   instructions |-> 5]

RECURSIVE SumWeights(_, _)
SumWeights(med, k) ==
  IF k > Len(ScoredFields) THEN 0
  ELSE (IF Truthy(med, ScoredFields[k]) THEN Weight[ScoredFields[k]] ELSE 0)
       + SumWeights(med, k + 1)

\* `score` and `total` after the six ifs
Score(med) == SumWeights(med, 1)
\* a total that counts every weight, populated or not
TotalOfAllWeights(med) == SumWeights([f \in Fields |-> "x"], 1)
Total(med) == SumWeights(med, 1)

\* Math.round((score / total) * 100) for integers score >= 0, total > 0
RoundedPercent(score, total) == (200 * score + total) \div (2 * total)

GetMedicationConfidence(med) ==
  IF Total(med) > 0 THEN RoundedPercent(Score(med), Total(med)) ELSE 0

\* The candidates: every subset of the fields assigned, each to the empty
\* string or to a value; name and dosage take two different values.
FieldValues(f) == IF f \in {"name", "dosage"} THEN {"", "a", "b"} ELSE {"", "a"}
Candidates ==
  UNION {{med \in [S -> {"", "a", "b"}] : \A f \in S : med[f] \in FieldValues(f)} :
           S \in SUBSET Fields}
EngineConfidences == {0, 100}

InitConf ==
  /\ cMed \in Candidates
  /\ cEngine \in EngineConfidences
  /\ cDone = FALSE
  /\ cConfidence = 0
  /\ OthersIdle("conf")

\* allMedications.map(med => ({...med, confidence: getMedicationConfidence(med)}))
AddConfidence ==
  /\ ~cDone
  /\ cConfidence' = GetMedicationConfidence(cMed)
  /\ cDone' = TRUE
  /\ UNCHANGED <<cMed, cEngine, othersConf>>

NextConf == AddConfidence

SpecConf == InitConf /\ [][NextConf]_vars

-----------------------------------------------------------------------------
(* preprocessImage and runOCR, and SpecOCR: one call of runOCR.  The pixel  *)
(* loops are represented by the sums they compute; the arithmetic and the  *)
(* control flow that the sums feed are the code's.  OCR_DEBUG is false, so *)
(* the logging branches and worker.setParameters never run.                *)

Strategies == <<"standard", "high-contrast", "denoise", "aggressive">>

\* a ratio taken without the + 1 of its denominator
DetectRotationPlainRatio(horizontalEdges, verticalEdges) ==
  IF 10 * verticalEdges > 12 * horizontalEdges THEN 90 ELSE 0

\* ratio = verticalEdges / (horizontalEdges + 1); ratio > 1.2 ? 90 : 0
DetectRotation(horizontalEdges, verticalEdges) ==
  IF 10 * verticalEdges > 12 * (horizontalEdges + 1) THEN 90 ELSE 0

\* (laplacianSum / count) * 10 as the fraction <<numerator, denominator>>;
\* an image without interior pixels has count 0 and the score is NaN
DetectBlur(laplacianSum, count) == <<laplacianSum * 10, count>>

\* blurScore < 100, false for NaN
IsBlurry(blurScore) == blurScore[2] > 0 /\ blurScore[1] < 100 * blurScore[2]

\* scale = max(1, min(2, 2000 / maxDimension)); floor(width * scale), floor(height * scale)
ScaledSize(width, height) ==
  LET maxDimension == IF width > height THEN width ELSE height
  IN IF 2 * maxDimension <= 2000 THEN <<2 * width, 2 * height>>
     ELSE IF maxDimension >= 2000 THEN <<width, height>>
     ELSE <<(width * 2000) \div maxDimension, (height * 2000) \div maxDimension>>

\* a descending sort that puts a result before the earlier results of equal score
RECURSIVE SortResultsTiesReversed(_)
SortResultsTiesReversed(results) ==
  IF results = << >> THEN << >>
  ELSE LET last == results[Len(results)]
           front == SortResultsTiesReversed(SubSeq(results, 1, Len(results) - 1))
           keep == Cardinality({k \in 1..Len(front) : front[k].testScore > last.testScore})
       IN SubSeq(front, 1, keep) \o <<last>> \o SubSeq(front, keep + 1, Len(front))

\* results.sort((a, b) => b.testScore - a.testScore): stable, descending
RECURSIVE SortResults(_)
SortResults(results) ==
  IF results = << >> THEN << >>
  ELSE LET last == results[Len(results)]
           front == SortResults(SubSeq(results, 1, Len(results) - 1))
           keep == Cardinality({k \in 1..Len(front) : front[k].testScore >= last.testScore})
       IN SubSeq(front, 1, keep) \o <<last>> \o SubSeq(front, keep + 1, Len(front))

Rejected(message) ==
  [status |-> "rejected", message |-> message, results |-> << >>, strategy |-> "",
   width |-> 0, height |-> 0, isBlurry |-> FALSE, rotationCorrected |-> FALSE]

\* a strategy loop that is skipped for a blurry image
TestStrategiesUnlessBlurry(img, canvas) ==
  IF IsBlurry(DetectBlur(img.blur[1], img.blur[2])) THEN << >>
  ELSE SelectSeq([k \in 1..Len(Strategies) |->
                    [strategy |-> Strategies[k], testScore |-> img.scores[k]]],
                 LAMBDA r : r.strategy \in canvas.testCtxs)

\* the loop over the strategies: one result, with its edge count, for every
\* strategy whose test canvas has a context
TestStrategies(img, canvas) ==
  SelectSeq([k \in 1..Len(Strategies) |->
               [strategy |-> Strategies[k], testScore |-> img.scores[k]]],
            LAMBDA r : r.strategy \in canvas.testCtxs)

\* img.onload of preprocessImage: what the promise settles to.  `results` is
\* the sorted array of the strategies evaluated.
ImgOnload(img, canvas) ==
  IF ~canvas.ctx THEN Rejected("Canvas context not available")
  ELSE
    LET size == ScaledSize(img.size[1], img.size[2])
        rotationAngle == DetectRotation(img.edges[1], img.edges[2])
    IN IF rotationAngle # 0 /\ ~canvas.rotatedCtx
       THEN Rejected("Could not get rotated canvas context")
       ELSE
         LET final == IF rotationAngle \in {90, 270} THEN <<size[2], size[1]>> ELSE size
             blurScore == DetectBlur(img.blur[1], img.blur[2])
             results == SortResults(TestStrategies(img, canvas))
         IN IF results = << >>
            THEN Rejected("TypeError: bestResult is undefined")
            ELSE [status |-> "resolved", message |-> "", results |-> results,
                  strategy |-> results[1].strategy,
                  width |-> final[1], height |-> final[2],
                  isBlurry |-> IsBlurry(blurScore),
                  rotationCorrected |-> rotationAngle # 0]

Images ==
  [kind : {"string", "file"},
   size : {<<400, 300>>, <<1000, 1500>>, <<3000, 2000>>},
   edges : {<<0, 0>>, <<10, 13>>, <<10, 14>>},
   blur : {<<0, 0>>, <<4, 1>>, <<10, 1>>, <<999, 100>>},
   scores : {<<0, 0, 0, 0>>, <<2, 5, 5, 0>>, <<1, 0, 0, 3>>}]

\* data.text and data.confidence of the engine
EngineData == [text : {"", "Lisinopril 10mg"}, confidence : {0, 87}]

InitOCR ==
  /\ oImage \in Images
  /\ oPc = "createWorker"
  /\ oWorker = "none"
  /\ oCalls = [recognize |-> 0, terminate |-> 0]
  /\ oCanvas = [ctx |-> FALSE, rotatedCtx |-> FALSE, testCtxs |-> {}]
  /\ oPre = Pending
  /\ oData = [text |-> "", confidence |-> 0]
  /\ oOut = Pending
  /\ OthersIdle("ocr")

Thrown(message) == [status |-> "thrown", message |-> message]

\* await Tesseract.createWorker('eng'), then the call of preprocessImage
CreateWorkerResolves ==
  /\ oPc = "createWorker"
  /\ oWorker' = "live"
  /\ oPc' = IF oImage.kind = "string" THEN "imgLoad" ELSE "fileRead"
  /\ UNCHANGED <<oImage, oCalls, oCanvas, oPre, oData, oOut, othersOcr>>

\* createWorker fails before the try block is entered
CreateWorkerRejects ==
  /\ oPc = "createWorker"
  /\ oOut' = Thrown("createWorker failed")
  /\ oPc' = "done"
  /\ UNCHANGED <<oImage, oWorker, oCalls, oCanvas, oPre, oData, othersOcr>>

\* a catch block that only rethrows
CatchWithoutTerminate ==
  /\ oOut' = Thrown("Failed to extract text from image")
  /\ oPc' = "done"
  /\ UNCHANGED oCalls

\* the catch block up to its await: console.error, worker.terminate()
Catch ==
  /\ oCalls' = [oCalls EXCEPT !.terminate = @ + 1]
  /\ oPc' = "catchTerminate"
  /\ UNCHANGED oOut

\* reader.onload: img.src is set
ReaderOnload ==
  /\ oPc = "fileRead"
  /\ oPc' = "imgLoad"
  /\ UNCHANGED <<oImage, oWorker, oCalls, oCanvas, oPre, oData, oOut, othersOcr>>

\* reader.onerror or img.onerror: the promise rejects
LoadError ==
  /\ \/ oPc = "fileRead" /\ oPre' = Rejected("Failed to read image file")
     \/ oPc = "imgLoad" /\ oPre' = Rejected("Failed to load image")
  /\ Catch
  /\ UNCHANGED <<oImage, oWorker, oCanvas, oData, othersOcr>>

\* img.onload, and runOCR resuming: worker.recognize(preprocessed.image) or catch
Preprocess ==
  /\ oPc = "imgLoad"
  /\ \E ctx \in BOOLEAN, rotatedCtx \in BOOLEAN, testCtxs \in SUBSET {"standard", "high-contrast", "denoise", "aggressive"} :
       oCanvas' = [ctx |-> ctx, rotatedCtx |-> rotatedCtx, testCtxs |-> testCtxs]
  /\ oPre' = ImgOnload(oImage, oCanvas')
  /\ IF oPre'.status = "resolved"
     THEN /\ oCalls' = [oCalls EXCEPT !.recognize = @ + 1]
          /\ oPc' = "recognize"
          /\ UNCHANGED oOut
     ELSE Catch
  /\ UNCHANGED <<oImage, oWorker, oData, othersOcr>>

\* worker.recognize resolves: words are collected, worker.terminate() is invoked
RecognizeResolves ==
  /\ oPc = "recognize"
  /\ oData' \in EngineData
  /\ oCalls' = [oCalls EXCEPT !.terminate = @ + 1]
  /\ oPc' = "terminate"
  /\ UNCHANGED <<oImage, oWorker, oCanvas, oPre, oOut, othersOcr>>

RecognizeRejects ==
  /\ oPc = "recognize"
  /\ Catch
  /\ UNCHANGED <<oImage, oWorker, oCanvas, oPre, oData, othersOcr>>

\* the terminate of the try block resolves: runOCR returns the OCRResult
TerminateResolves ==
  /\ oPc = "terminate"
  /\ oWorker' = "terminated"
  /\ oOut' = [status |-> "returned", text |-> oData.text, confidence |-> oData.confidence,
              previewImageWidth |-> oPre.width, previewImageHeight |-> oPre.height,
              isBlurry |-> oPre.isBlurry, rotationCorrected |-> oPre.rotationCorrected,
              preprocessingStrategy |-> oPre.strategy]
  /\ oPc' = "done"
  /\ UNCHANGED <<oImage, oCalls, oCanvas, oPre, oData, othersOcr>>

\* the terminate of the try block rejects: control passes to the catch block
TerminateRejects ==
  /\ oPc = "terminate"
  /\ Catch
  /\ UNCHANGED <<oImage, oWorker, oCanvas, oPre, oData, othersOcr>>

\* the terminate of the catch block settles: runOCR throws
CatchTerminateSettles ==
  /\ oPc = "catchTerminate"
  /\ \/ oWorker' = "terminated" /\ oOut' = Thrown("Failed to extract text from image")
     \/ oWorker' = oWorker /\ oOut' = Thrown("terminate failed")
  /\ oPc' = "done"
  /\ UNCHANGED <<oImage, oCalls, oCanvas, oPre, oData, othersOcr>>

NextOCR ==
  \/ CreateWorkerResolves
  \/ CreateWorkerRejects
  \/ ReaderOnload
  \/ LoadError
  \/ Preprocess
  \/ RecognizeResolves
  \/ RecognizeRejects
  \/ TerminateResolves
  \/ TerminateRejects
  \/ CatchTerminateSettles

SpecOCR == InitOCR /\ [][NextOCR]_vars

-----------------------------------------------------------------------------
(* useOCR.scanImage and PDFScanner.handleFileSelect, and SpecScan: the     *)
(* scans of one mounted component.  A scan is one invocation of the        *)
(* handler; an action is the code the handler runs between two awaits.     *)
(* runOCR appears as the await it is to the caller: it returns a text or   *)
(* throws one of the errors runOCR can throw.                              *)

MaxScans == 2
MaxPages == 2

Scans == 1..MaxScans

\* what recognition can return for a page: a page naming the patient and a
\* medication, and a page with a medication only
PageTexts ==
  {"Patient: Ann Lee\nMRN: 12345\nLisinopril 10mg once daily",
   "Metformin 500 mg twice daily"}

\* the messages of the errors runOCR throws
RunOCRErrors == {"Failed to extract text from image", "createWorker failed"}

\* parsePatientInfoFromText: a labelled name and a labelled record number;
\* what is not found is absent
ParsePatientInfoFromText(text) ==
  LET name == Match(text, Cat(<<LitI("patient"), Opt(Ch({":"})), S0,
                                Grp(1, Plus(Ch(Letters))), S1, Grp(2, Plus(Ch(Letters)))>>))
      mrn == Match(text, Cat(<<LitI("mrn"), Opt(Ch({":"})), S0, Grp(1, D1)>>))
      found == (IF name.found THEN {"firstName", "lastName"} ELSE {})
               \cup (IF mrn.found THEN {"medicalRecordNumber"} ELSE {})
  IN [f \in found |->
        CASE f = "firstName" -> Cap(text, name, 1)
          [] f = "lastName" -> Cap(text, name, 2)
          [] OTHER -> Cap(text, mrn, 1)]

\* parseMultipleMedications(result.text) and parsePatientInfoFromText(result.text)
\* of every text recognition can return
Parsed ==
  [t \in PageTexts |->
     [medications |-> ParseMultipleMedications(t), patient |-> ParsePatientInfoFromText(t)]]

\* allMedications.map(med => ({...med, confidence: getMedicationConfidence(med)}))
WithConfidence(meds) ==
  [k \in 1..Len(meds) |->
     [f \in DOMAIN meds[k] \cup {"confidence"} |->
        IF f = "confidence" THEN GetMedicationConfidence(meds[k]) ELSE meds[k][f]]]

\* a loop that starts the recognition of all remaining pages at once
RemainingPages(i, n) == i..n

\* the pages whose runOCR the loop invokes when it reaches page i of n, before
\* it awaits
PagesStarted(i, n) == {i}

\* a scan that extracts the patient on every page
OnEveryPage(i) == TRUE

\* if (i === 0): the page whose text patient identity is extracted from
IsFirstPage(i) == i = 1

NewScan ==
  [pc |-> "idle", pages |-> 0, inFlight |-> {}, started |-> << >>, texts |-> << >>,
   allMedications |-> << >>, combinedOCRResult |-> << >>, patientInfoFromPDF |-> << >>,
   extractions |-> 0, outcome |-> "none"]

InitScan ==
  /\ sComponent \in {"useOCR", "PDFScanner"}
  /\ scans = [s \in Scans |-> NewScan]
  /\ isProcessing = FALSE
  /\ error = Null
  /\ ocrResult = Null
  /\ medications = << >>
  /\ patientInfo = Null
  /\ progress = [originalFile |-> 0, processingStatus |-> "", currentPage |-> 0, totalPages |-> 0]
  /\ parsed = Parsed
  /\ OthersIdle("scan")

\* a catch block without the finally block
FailsStillProcessing(s, outcome, message) ==
  /\ scans' = [scans EXCEPT ![s] = [@ EXCEPT !.pc = "done", !.outcome = outcome, !.inFlight = {}]]
  /\ error' = Some(message)
  /\ UNCHANGED <<isProcessing, progress, ocrResult, medications, patientInfo>>

\* the catch and finally blocks: setError, setIsProcessing(false), setProcessingStatus('')
Fails(s, outcome, message) ==
  /\ scans' = [scans EXCEPT ![s] = [@ EXCEPT !.pc = "done", !.outcome = outcome, !.inFlight = {}]]
  /\ error' = Some(message)
  /\ isProcessing' = FALSE
  /\ progress' = [progress EXCEPT !.processingStatus = ""]
  /\ UNCHANGED <<ocrResult, medications, patientInfo>>

\* the handler up to its first await.  PDFScanner renders its upload area only
\* while it is not processing and shows no medications.
StartScan(s) ==
  /\ scans[s].pc = "idle"
  /\ IF s = 1 THEN TRUE ELSE scans[s - 1].pc # "idle"
  /\ sComponent = "PDFScanner" => ~isProcessing /\ medications = << >>
  /\ \E type \in {"none", "other", "image", "application/pdf"} :
       LET valid == IF sComponent = "useOCR" THEN type \in {"image", "application/pdf"}
                    ELSE type = "application/pdf"
       IN IF ~valid
          THEN /\ scans' = [scans EXCEPT ![s] = [@ EXCEPT !.pc = "done", !.outcome = "invalid"]]
               /\ error' = IF sComponent = "useOCR"
                           THEN Some(IF type = "none" THEN "No file provided"
                                     ELSE "Please provide a valid image or PDF file")
                           ELSE IF type = "none" THEN error ELSE Some("Please select a PDF file")
               /\ UNCHANGED <<isProcessing, ocrResult, medications, patientInfo, progress>>
          ELSE /\ scans' = [scans EXCEPT ![s] =
                              IF type = "application/pdf" THEN [@ EXCEPT !.pc = "convert"]
                              ELSE [@ EXCEPT !.pc = "ocr", !.pages = 1, !.inFlight = {1},
                                             !.started = <<1>>]]
               /\ isProcessing' = TRUE
               /\ error' = Null
               /\ ocrResult' = Null
               /\ medications' = << >>
               /\ patientInfo' = Null
               /\ progress' = IF sComponent = "useOCR" THEN progress
                              ELSE [progress EXCEPT !.originalFile = s,
                                      !.processingStatus = "Converting PDF to images..."]
  /\ UNCHANGED <<sComponent, parsed, othersScan>>

\* convertPDFToImages resolves with n images: none is an error, otherwise the
\* loop starts with the first page
ConvertResolves(s) ==
  /\ scans[s].pc = "convert"
  /\ \E n \in 0..MaxPages :
       IF n = 0 THEN Fails(s, "convertFailed", "Failed to convert PDF to images")
       ELSE /\ scans' = [scans EXCEPT ![s] =
                           [@ EXCEPT !.pc = "ocr", !.pages = n, !.inFlight = PagesStarted(1, n),
                                     !.started = <<1>>]]
            /\ progress' = IF sComponent = "useOCR" THEN progress
                           ELSE [progress EXCEPT !.totalPages = n, !.currentPage = 1,
                                   !.processingStatus =
                                     "Processing page 1 of " \o ToString(n) \o "..."]
            /\ UNCHANGED <<isProcessing, error, ocrResult, medications, patientInfo>>
  /\ UNCHANGED <<sComponent, parsed, othersScan>>

ConvertRejects(s) ==
  /\ scans[s].pc = "convert"
  /\ Fails(s, "convertFailed", "PDF rendering failed")
  /\ UNCHANGED <<sComponent, parsed, othersScan>>

\* a catch block that publishes what the earlier pages gave
OcrRejectsPublishing(s) ==
  /\ scans[s].pc = "ocr"
  /\ scans' = [scans EXCEPT ![s] = [@ EXCEPT !.pc = "done", !.outcome = "ocrFailed", !.inFlight = {}]]
  /\ error' = Some("Failed to extract text from image")
  /\ isProcessing' = FALSE
  /\ medications' = WithConfidence(scans[s].allMedications)
  /\ patientInfo' = scans[s].patientInfoFromPDF
  /\ UNCHANGED <<sComponent, parsed, ocrResult, progress, othersScan>>

\* runOCR of the page in flight throws
OcrRejects(s) ==
  /\ scans[s].pc = "ocr"
  /\ \E message \in RunOCRErrors : Fails(s, "ocrFailed", message)
  /\ UNCHANGED <<sComponent, parsed, othersScan>>

\* runOCR of the page in flight returns: the body of the loop, then either the
\* next page's runOCR or the code after the loop
OcrResolves(s) ==
  /\ scans[s].pc = "ocr"
  /\ \E i \in scans[s].inFlight, text \in PageTexts :
       LET scan == scans[s]
           first == IsFirstPage(i)
           allMedications == scan.allMedications \o parsed[text].medications
           patientInfoFromPDF == IF first THEN Some(parsed[text].patient)
                                 ELSE scan.patientInfoFromPDF
           combinedOCRResult == IF i = 1 THEN Some([text |-> text]) ELSE scan.combinedOCRResult
           after == [scan EXCEPT !.texts = Append(@, text),
                                 !.allMedications = allMedications,
                                 !.patientInfoFromPDF = patientInfoFromPDF,
                                 !.combinedOCRResult = combinedOCRResult,
                                 !.extractions = IF first THEN @ + 1 ELSE @]
       IN IF i < scan.pages
          THEN /\ scans' = [scans EXCEPT ![s] =
                              [after EXCEPT !.inFlight = (@ \ {i}) \cup PagesStarted(i + 1, scan.pages),
                                            !.started = Append(@, i + 1)]]
               /\ progress' = IF sComponent = "useOCR" THEN progress
                              ELSE [progress EXCEPT !.currentPage = i + 1,
                                      !.processingStatus =
                                        "Processing page " \o ToString(i + 1) \o " of "
                                          \o ToString(scan.pages) \o "..."]
               /\ UNCHANGED <<isProcessing, error, ocrResult, medications, patientInfo>>
          ELSE /\ scans' = [scans EXCEPT ![s] =
                              [after EXCEPT !.pc = "done", !.outcome = "published", !.inFlight = {}]]
               /\ medications' = WithConfidence(allMedications)
               /\ IF sComponent = "useOCR"
                  THEN /\ ocrResult' = combinedOCRResult
                       /\ patientInfo' = IF patientInfoFromPDF # Null
                                            /\ DOMAIN patientInfoFromPDF[1] # {}
                                         THEN patientInfoFromPDF ELSE patientInfo
                       /\ UNCHANGED progress
                  ELSE /\ patientInfo' = patientInfoFromPDF
                       /\ progress' = [progress EXCEPT !.processingStatus = ""]
                       /\ UNCHANGED ocrResult
               /\ isProcessing' = FALSE
               /\ UNCHANGED error
  /\ UNCHANGED <<sComponent, parsed, othersScan>>

\* useOCR.reset, and PDFScanner.handleReset behind "Scan Another PDF"
Reset ==
  /\ IF sComponent = "useOCR"
     THEN /\ isProcessing' = FALSE
          /\ ocrResult' = Null
          /\ UNCHANGED progress
     ELSE /\ ~isProcessing /\ medications # << >>
          /\ progress' = [progress EXCEPT !.originalFile = 0, !.currentPage = 0, !.totalPages = 0]
          /\ UNCHANGED <<isProcessing, ocrResult>>
  /\ error' = Null
  /\ medications' = << >>
  /\ patientInfo' = Null
  /\ UNCHANGED <<sComponent, parsed, scans, othersScan>>

NextScan ==
  \/ \E s \in Scans : StartScan(s)
  \/ \E s \in Scans : ConvertResolves(s)
  \/ \E s \in Scans : ConvertRejects(s)
  \/ \E s \in Scans : OcrResolves(s)
  \/ \E s \in Scans : OcrRejects(s)
  \/ Reset

SpecScan == InitScan /\ [][NextScan]_vars

\* every external call (convertPDFToImages, runOCR) eventually settles
SpecScanFair ==
  /\ SpecScan
  /\ \A s \in Scans : WF_vars(ConvertResolves(s) \/ ConvertRejects(s))
  /\ \A s \in Scans : WF_vars(OcrResolves(s) \/ OcrRejects(s))

-----------------------------------------------------------------------------
(* convertToNDCFormat, lookupMedicationByNDC and lookupProductByUPC, and   *)
(* SpecLookup: one call of a lookup.  A query is one fetch with the        *)
(* response.json() that follows it; lQueries records the queries issued,   *)
(* each with how it ended.                                                 *)

\* code.replace(/\D/g, '')
RECURSIVE OnlyDigits(_)
OnlyDigits(s) ==
  IF s = "" THEN ""
  ELSE (IF At(s, 1) \in Digits THEN At(s, 1) ELSE "") \o OnlyDigits(SubSeq(s, 2, Len(s)))

\* s.slice(from, to), 0 <= from
Slice(s, from, to) == SubSeq(s, from + 1, IF to < Len(s) THEN to ELSE Len(s))

\* the formats as collected, duplicates included
KeepAll(formats) == formats

\* [...new Set(formats)]: the first occurrence of every element, in order
Unique(formats) ==
  LET keep == {k \in 1..Len(formats) : \A j \in 1..(k - 1) : formats[j] # formats[k]}
  IN [i \in 1..Cardinality(keep) |->
        formats[CHOOSE k \in keep : Cardinality({j \in keep : j < k}) = i - 1]]

ConvertToNDCFormat(code) ==
  LET digits == OnlyDigits(code)
      segments == SplitOn(code, "-", 1)
      padded == "0" \o digits
      zeros == CHOOSE z \in 0..Len(digits) :
                 /\ \A k \in 1..z : At(digits, k) = "0"
                 /\ z = Len(digits) \/ At(digits, z + 1) # "0"
      noLeadingZeros == SubSeq(digits, zeros + 1, Len(digits))
      Two(s, a, b, c) == Slice(s, a, b) \o "-" \o Slice(s, b, c)
      Three(s, a, b, c, d) == Two(s, a, b, c) \o "-" \o Slice(s, c, d)
  IN Unique(
       (IF Includes(code, "-")
        THEN (IF Len(segments) >= 2 THEN <<segments[1] \o "-" \o segments[2]>> ELSE << >>)
             \o (IF Len(segments) >= 3 THEN <<code>> ELSE << >>)
        ELSE << >>)
       \o (IF Len(digits) = 11
           THEN <<Three(digits, 0, 4, 8, 10), Two(digits, 0, 4, 8),
                  Three(digits, 0, 5, 8, 10), Two(digits, 0, 5, 8),
                  Three(digits, 0, 5, 9, 10), Two(digits, 0, 5, 9)>>
           ELSE << >>)
       \o (IF Len(digits) = 10
           THEN <<Three(padded, 0, 4, 8, 10), Three(padded, 0, 5, 8, 10)>>
           ELSE << >>)
       \o (IF Len(digits) = 8 THEN <<Two(digits, 0, 4, 8)>> ELSE << >>)
       \o (IF Len(digits) = 9 THEN <<Two(digits, 0, 5, 9)>> ELSE << >>)
       \o (IF Len(noLeadingZeros) = 8
           THEN <<Two(noLeadingZeros, 0, 4, 8), Two(noLeadingZeros, 0, 5, 8)>>
           ELSE << >>))

\* upcVariants: digits, digits.slice(1), digits.padStart(13, '0'), digits.padStart(14, '0')
UpcVariants(digits) ==
  LET PadStart(n) == [k \in 1..(IF n > Len(digits) THEN n - Len(digits) ELSE 0) |-> "0"]
      zeros13 == PadStart(13)
      zeros14 == PadStart(14)
      Zeros(z) == IF Len(z) = 0 THEN "" ELSE SubSeq("00000000000000", 1, Len(z))
  IN <<digits, Slice(digits, 1, Len(digits)), Zeros(zeros13) \o digits, Zeros(zeros14) \o digits>>

\* the scanned codes
Codes ==
  {"12345678901", "0012345678", "00012345678", "1234-5678", "12345-678-90",
   "123456789", "1234567", "12345678901234", "abc"}

\* What the code does with the body of an OK response: "return" it found a
\* record, "skip" the success test fails, "throw" an exception is raised
\* inside the try block.  The bodies: "malformed" (response.json() rejects),
\* "null", "empty" (no results / status 0 / no items), "record", and
\* "badRecord" (fda: results [null]; openfoodfacts: a product whose brands is
\* no string; upcitemdb: items [null]).
Handle(registry, body) ==
  CASE body = "malformed" -> "throw"
    [] body = "null" -> IF registry = "fda" THEN "throw" ELSE "skip"
    [] body = "empty" -> "skip"
    [] body = "record" -> "return"
    [] body = "badRecord" -> IF registry = "fda" THEN "return" ELSE "throw"

Returned(value) == [status |-> "returned", value |-> value]

InitLookup ==
  /\ lKind \in {"ndc", "upc"}
  /\ lCode \in Codes
  /\ lPc = "start"
  /\ lCandidates = << >>
  /\ lLoop = 1
  /\ lIdx = 0
  /\ lQueries = << >>
  /\ lResult = Pending
  /\ OthersIdle("lookup")

\* the fetch of candidate k in loop `loop` is issued
Issue(queries, candidates, loop, k) ==
  /\ lQueries' = Append(queries,
                        [registry |-> IF lKind = "ndc" THEN "fda"
                                      ELSE IF loop = 1 THEN "openfoodfacts" ELSE "upcitemdb",
                         candidate |-> candidates[k], outcome |-> "pending"])
  /\ lCandidates' = candidates
  /\ lLoop' = loop
  /\ lIdx' = k
  /\ lPc' = "fetch"
  /\ UNCHANGED lResult

\* `return value`, after the queries issued so far
Return(queries, value) ==
  /\ lQueries' = queries
  /\ lResult' = Returned(value)
  /\ lPc' = "done"
  /\ UNCHANGED <<lCandidates, lLoop, lIdx>>

\* the call up to its first await
Lookup ==
  /\ lPc = "start"
  /\ IF lKind = "ndc"
     THEN LET possibleFormats == ConvertToNDCFormat(lCode)
          IN IF possibleFormats = << >> THEN Return(lQueries, Null)
             ELSE Issue(lQueries, possibleFormats, 1, 1)
     ELSE LET digits == OnlyDigits(lCode)
          IN IF Len(digits) < 8 THEN Return(lQueries, Null)
             ELSE Issue(lQueries, UpcVariants(digits), 1, 1)
  /\ UNCHANGED <<lKind, lCode, othersLookup>>

\* the current query ended without a return: the loop goes on with the next
\* candidate, then the next registry, then `return null`
Continue(outcome) ==
  LET ended == [lQueries EXCEPT ![Len(lQueries)].outcome = outcome]
  IN IF lIdx < Len(lCandidates) THEN Issue(ended, lCandidates, lLoop, lIdx + 1)
     ELSE IF lKind = "upc" /\ lLoop = 1 THEN Issue(ended, lCandidates, 2, 1)
     ELSE Return(ended, Null)

\* an exception that leaves the call
Uncaught ==
  /\ lResult' = [status |-> "thrown", value |-> Null]
  /\ lPc' = "done"
  /\ UNCHANGED <<lQueries, lCandidates, lLoop, lIdx>>

\* catch (err): log and go on
Caught == Continue("error")

\* a hit that is only logged
HitIgnored(value) == Continue(IF value = Null THEN "hitNull" ELSE "hit")

\* the success branch: return the record
Hit(value) ==
  Return([lQueries EXCEPT ![Len(lQueries)].outcome = IF value = Null THEN "hitNull" ELSE "hit"],
         value)

\* await fetch(url) settles; on an OK response response.json() is called
FetchSettles ==
  /\ lPc = "fetch"
  /\ \/ Caught
     \/ Continue("miss")
     \/ /\ lPc' = "json"
        /\ UNCHANGED <<lQueries, lCandidates, lLoop, lIdx, lResult>>
  /\ UNCHANGED <<lKind, lCode, othersLookup>>

\* await response.json() settles
JsonSettles ==
  /\ lPc = "json"
  /\ \E body \in {"malformed", "null", "empty", "record", "badRecord"} :
       LET query == lQueries[Len(lQueries)]
           handled == Handle(query.registry, body)
       IN CASE handled = "throw" -> Caught
            [] handled = "skip" -> Continue("miss")
            [] handled = "return" ->
                 Hit(IF body = "badRecord" THEN Null
                     ELSE Some([registry |-> query.registry, candidate |-> query.candidate]))
  /\ UNCHANGED <<lKind, lCode, othersLookup>>

NextLookup ==
  \/ Lookup
  \/ FetchSettles
  \/ JsonSettles

SpecLookup == InitLookup /\ [][NextLookup]_vars

-----------------------------------------------------------------------------
(* SpecMulti: one call of parseMultipleMedications over a text of Texts,   *)
(* and the scoring of the candidates it returned.                          *)

InitMulti ==
  /\ mText \in Texts
  /\ mDone = FALSE
  /\ mResult = << >>
  /\ mClass = ""
  /\ mScored = Null
  /\ OthersIdle("multi")

ParseMultiple ==
  /\ ~mDone
  /\ mResult' = ParseMultipleMedications(mText)
  /\ mClass' = IF IsMultiple(mText) THEN "multiple" ELSE "single"
  /\ mDone' = TRUE
  /\ UNCHANGED <<mText, mScored, othersMulti>>

\* allMedications.map(med => ({...med, confidence: getMedicationConfidence(med)}))
ScoreMedications ==
  /\ mDone /\ mScored = Null
  /\ mScored' = Some(WithConfidence(mResult))
  /\ UNCHANGED <<mText, mDone, mResult, mClass, othersMulti>>

NextMulti ==
  \/ ParseMultiple
  \/ ScoreMedications

SpecMulti == InitMulti /\ [][NextMulti]_vars

-----------------------------------------------------------------------------
(* SpecRls: the row level security of the notifications table.  The        *)
(* migrations run in order: notifications_system.sql, then                 *)
(* fix_notification_rls.sql, then the fix for custom user ids, which drops *)
(* a policy the second one creates.  A policy is its name, its command and *)
(* its USING / WITH CHECK expression: "own" is auth.uid() = user_id,       *)
(* "ownOrServiceRole" adds OR auth.role() = 'service_role', "true" is true.*)

MaxRows == 2

\* the users that sign in; the service role is the backend's key
Users == {"u1", "u2"}
Actors == Users \cup {"service_role"}

Migrations ==
  LET Policy(name, command, check) == [name |-> name, command |-> command, check |-> check]
  IN << [drop |-> {},
         create |-> {Policy("Users can view own notifications", "SELECT", "own"),
                     Policy("Users can update own notifications", "UPDATE", "own"),
                     Policy("Users can delete own notifications", "DELETE", "own"),
                     Policy("Service role can insert notifications", "INSERT", "true")}],
        [drop |-> {"Service role can insert notifications"},
         create |-> {Policy("Users can insert own notifications", "INSERT", "own"),
                     Policy("Service role can insert notifications", "INSERT",
                            "ownOrServiceRole")}],
        [drop |-> {"Users can view own notifications", "Users can update own notifications",
                   "Users can delete own notifications",
                   "Service role can insert notifications",
                   "Users can insert own notifications"},
         create |-> {Policy("Anyone can view all notifications", "SELECT", "true"),
                     Policy("Anyone can update all notifications", "UPDATE", "true"),
                     Policy("Anyone can delete all notifications", "DELETE", "true"),
                     Policy("Anyone can insert notifications", "INSERT", "true")}] >>

\* Row level security is enabled: a command on a row passes if one of the
\* policies for the command accepts it; the service role bypasses the policies.
Permits(policies, actor, command, user) ==
  \/ actor = "service_role"
  \/ \E p \in policies :
       /\ p.command = command
       /\ CASE p.check = "true" -> TRUE
            [] p.check = "own" -> actor = user
            [] p.check = "ownOrServiceRole" -> actor = user \/ actor = "service_role"

InitRls == RlsIdle /\ OthersIdle("rls")

\* the next migration is run: DROP POLICY IF EXISTS ..., CREATE POLICY ...
Migrate ==
  /\ rlsApplied < Len(Migrations)
  /\ rlsApplied' = rlsApplied + 1
  /\ rlsPolicies' = {p \in rlsPolicies : p.name \notin Migrations[rlsApplied + 1].drop}
                      \cup Migrations[rlsApplied + 1].create
  /\ UNCHANGED <<rlsRows, rlsSeen, othersRls>>

\* INSERT INTO notifications (user_id, ...) by `actor`
Insert(actor, user) ==
  /\ rlsApplied >= 1
  /\ Len(rlsRows) < MaxRows
  /\ Permits(rlsPolicies, actor, "INSERT", user)
  /\ rlsRows' = Append(rlsRows, user)
  /\ UNCHANGED <<rlsApplied, rlsPolicies, rlsSeen, othersRls>>

\* SELECT * FROM notifications by `actor`, with no filter of its own
Select(actor) ==
  /\ rlsApplied >= 1
  /\ rlsSeen' = Some([actor |-> actor, applied |-> rlsApplied,
                      rows |-> {i \in DOMAIN rlsRows :
                                  Permits(rlsPolicies, actor, "SELECT", rlsRows[i])}])
  /\ UNCHANGED <<rlsApplied, rlsPolicies, rlsRows, othersRls>>

NextRls ==
  \/ Migrate
  \/ \E actor \in Actors, user \in Users : Insert(actor, user)
  \/ \E actor \in Actors : Select(actor)

SpecRls == InitRls /\ [][NextRls]_vars

-----------------------------------------------------------------------------
(* SpecNotify: NotificationService.subscribeToNotifications and the effect *)
(* that useNotifications and NotificationCenter run on mount.  The two     *)
(* components differ in the toast only, so a component here is either.  A  *)
(* notification is its id, the index of its row in nTable; a callback is   *)
(* the index of the component that passed it.  Every call of               *)
(* supabaseClient.channel(...).on(...).subscribe() opens a channel of its  *)
(* own, joined at once, and the server sends every INSERT that passes a    *)
(* channel's filter on that channel.  Rows are inserted unread and nothing *)
(* here marks them read.                                                   *)

MaxComps == 2
MaxInserts == 2

\* getNotifications(userId): the user's rows, newest first
GetNotifications(userId) ==
  LET ids == {n \in DOMAIN nTable : nTable[n] = userId}
  IN [i \in 1..Cardinality(ids) |->
        CHOOSE n \in ids : Cardinality({m \in ids : m > n}) = i - 1]

\* getUnreadCount(userId)
GetUnreadCount(userId) == Cardinality({n \in DOMAIN nTable : nTable[n] = userId})

\* subscribeToNotifications(userId, callback)
SubscribeToNotifications(userId, callback) ==
  /\ nListeners' = [nListeners EXCEPT ![userId] =
                      Some((IF @ = Null THEN {} ELSE @[1]) \cup {callback})]
  /\ nChannels' = Append(nChannels,
                         [userId |-> userId, state |-> "subscribed", queue |-> << >>])

\* the function subscribeToNotifications returned, called
Unsubscribe(userId, callback, channel) ==
  LET removed == IF nListeners[userId] = Null THEN Null
                 ELSE Some(nListeners[userId][1] \ {callback})
      empty == removed # Null /\ removed[1] = {}
  IN /\ nListeners' = [nListeners EXCEPT ![userId] = IF empty THEN Null ELSE removed]
     /\ nChannels' = IF empty
                     THEN [nChannels EXCEPT ![channel].state = "unsubscribed",
                                            ![channel].queue = << >>]
                     ELSE nChannels

\* notifyListeners(userId, notification), each callback being
\* setNotifications(prev => [notification, ...prev]); setUnreadCount(prev => prev + 1)
NotifyListeners(userId, notification) ==
  LET callbacks == IF nListeners[userId] = Null THEN {} ELSE nListeners[userId][1]
  IN nComps' = [c \in DOMAIN nComps |->
                  IF c \in callbacks
                  THEN [nComps[c] EXCEPT !.notifications = <<notification>> \o @,
                                         !.unreadCount = @ + 1,
                                         !.calls = Append(@, notification)]
                  ELSE nComps[c]]

InitNotify == NotifyIdle /\ OthersIdle("notify")

\* a component mounts: the effect calls loadNotifications() and
\* loadUnreadCount(), which run up to their await, and subscribes
Mount(userId) ==
  /\ Len(nComps) < MaxComps
  /\ SubscribeToNotifications(userId, Len(nComps) + 1)
  /\ nComps' = Append(nComps,
                      [userId |-> userId, mounted |-> TRUE, channel |-> Len(nChannels) + 1,
                       since |-> Len(nTable), notifications |-> << >>, unreadCount |-> 0,
                       loading |-> TRUE, calls |-> << >>,
                       load |-> [list |-> [status |-> "sent"],
                                 count |-> [status |-> "sent"]]])
  /\ UNCHANGED <<nTable, othersNotify>>

\* the effect's cleanup; the state of the component goes with the component
Unmount(c) ==
  /\ nComps[c].mounted
  /\ Unsubscribe(nComps[c].userId, c, nComps[c].channel)
  /\ nComps' = [nComps EXCEPT ![c] =
                  [userId |-> @.userId, mounted |-> FALSE, channel |-> @.channel,
                   since |-> @.since, notifications |-> << >>, unreadCount |-> 0,
                   loading |-> FALSE, calls |-> << >>,
                   load |-> [list |-> [status |-> "settled"],
                             count |-> [status |-> "settled"]]]]
  /\ UNCHANGED <<nTable, othersNotify>>

\* a row is inserted for a user: the server sends the INSERT on every
\* subscribed channel whose filter is user_id=eq.<that user>
CreateNotification(userId) ==
  /\ Len(nTable) < MaxInserts
  /\ nTable' = Append(nTable, userId)
  /\ nChannels' = [k \in DOMAIN nChannels |->
                     IF nChannels[k].state = "subscribed" /\ nChannels[k].userId = userId
                     THEN [nChannels[k] EXCEPT !.queue = Append(@, Len(nTable) + 1)]
                     ELSE nChannels[k]]
  /\ UNCHANGED <<nListeners, nComps, othersNotify>>

\* the handler of a channel runs for the next INSERT sent on it
Deliver(channel) ==
  /\ nChannels[channel].state = "subscribed"
  /\ nChannels[channel].queue # << >>
  /\ NotifyListeners(nChannels[channel].userId, Head(nChannels[channel].queue))
  /\ nChannels' = [nChannels EXCEPT ![channel].queue = Tail(@)]
  /\ UNCHANGED <<nTable, nListeners, othersNotify>>

\* the query of a load ("list": getNotifications, "count": getUnreadCount)
\* is answered by the server, with the rows of that moment or with an error
QueryRuns(c, which) ==
  /\ nComps[c].mounted
  /\ nComps[c].load[which].status = "sent"
  /\ \E ok \in BOOLEAN :
       nComps' = [nComps EXCEPT ![c].load[which] =
                    [status |-> "response", ok |-> ok,
                     data |-> IF ~ok THEN Null
                              ELSE IF which = "list"
                              THEN Some(GetNotifications(nComps[c].userId))
                              ELSE Some(GetUnreadCount(nComps[c].userId))]]
  /\ UNCHANGED <<nTable, nListeners, nChannels, othersNotify>>

\* the await of a load returns: setNotifications(data) and, in finally,
\* setLoading(false); setUnreadCount(count); an error is logged only
ResponseArrives(c, which) ==
  LET response == nComps[c].load[which]
  IN /\ nComps[c].mounted
     /\ response.status = "response"
     /\ nComps' = [nComps EXCEPT
                     ![c].load[which] = [status |-> "settled"],
                     ![c].loading = IF which = "list" THEN FALSE ELSE @,
                     ![c].notifications =
                        IF which = "list" /\ response.ok THEN response.data[1] ELSE @,
                     ![c].unreadCount =
                        IF which = "count" /\ response.ok THEN response.data[1] ELSE @]
     /\ UNCHANGED <<nTable, nListeners, nChannels, othersNotify>>

NextNotify ==
  \/ \E userId \in Users : Mount(userId)
  \/ \E c \in DOMAIN nComps : Unmount(c)
  \/ \E userId \in Users : CreateNotification(userId)
  \/ \E channel \in DOMAIN nChannels : Deliver(channel)
  \/ \E c \in DOMAIN nComps, which \in {"list", "count"} : QueryRuns(c, which)
  \/ \E c \in DOMAIN nComps, which \in {"list", "count"} : ResponseArrives(c, which)

SpecNotify == InitNotify /\ [][NextNotify]_vars

-----------------------------------------------------------------------------
(* Claims about the parsers                                                *)

\* C1: during one run of parseMedicationFromText a field that holds a value
\* keeps it: no later pattern and no later name strategy of the run changes
\* or clears an assigned field.
C1_FieldsAssignedOnce ==
  [][\A f \in DOMAIN medication :
       f \in DOMAIN medication' /\ medication'[f] = medication[f]]_vars

\* A finished run in which the name was set by an earlier strategy although
\* the last strategy ("commonly known as") matches the text with another name.
C1_Witness ==
  /\ pStage = "done"
  /\ Truthy(medication, "name")
  /\ Test(CommonlyKnownRe, pText)
  /\ medication["name"] # Cap(pText, Match(pText, CommonlyKnownRe), 1)

\* C3: when the text is classified multiple and no section is kept, the
\* result is the single extraction over the whole text, which is returned
\* only if it found a name, a dosage or a frequency, and is the empty list
\* otherwise.
C3_FallbackRequiresField ==
  (mDone /\ IsMultiple(mText)
     /\ SectionMedications(SplitRe(mText, SectionSplitRe, 1)) = << >>)
  => LET whole == ParseMedicationFromText(mText)
     IN mResult = IF Truthy(whole, "name") \/ Truthy(whole, "dosage")
                     \/ Truthy(whole, "frequency")
                  THEN <<whole>> ELSE << >>

\* C2 as claimed: the confidence is 100 for every candidate with at least one
\* populated field, whichever field it is, and 0 only for a candidate with no
\* populated field.
C2_AnyFieldGives100 ==
  cDone => cConfidence = IF \E f \in Fields : Truthy(cMed, f) THEN 100 ELSE 0

\* C2 as amended: the confidence is 100 when at least one of the six weighted
\* fields (name, dosage, frequency, route, quantity, instructions) is
\* populated and 0 otherwise, prescriber and refills not counting; so it is
\* decided by which weighted fields are populated, not by their values or by
\* the engine's confidence.
C2_WeightedFieldGives100 ==
  cDone => cConfidence =
             IF \E k \in 1..Len(ScoredFields) : Truthy(cMed, ScoredFields[k])
             THEN 100 ELSE 0

\* A scored candidate with only name and dosage (55 of the 100 weight points)
\* on a page the engine gave confidence 0: its confidence is 100.
C2_Witness ==
  /\ cDone
  /\ DOMAIN cMed = {"name", "dosage"}
  /\ Truthy(cMed, "name") /\ Truthy(cMed, "dosage")
  /\ cEngine = 0
  /\ cConfidence = 100

\* C4: whenever runOCR has returned or thrown after its worker was created,
\* worker.terminate has been invoked: after a failed preprocessing, after a
\* failed recognition and on success.
C4_WorkerReleasedOnEveryExit ==
  (oPc = "done" /\ oWorker # "none") => oCalls.terminate >= 1

\* runOCR has thrown because preprocessing failed, recognition was never
\* invoked, and terminate was invoked.
C4_Witness ==
  /\ oPc = "done" /\ oOut.status = "thrown"
  /\ oPre.status = "rejected"
  /\ oCalls.recognize = 0
  /\ oCalls.terminate = 1

\* C10: once img.onload has its canvas (and, for a rotated image, the rotated
\* canvas), every strategy whose test canvas exists is evaluated whatever the
\* blur score is; when at least one was evaluated preprocessImage resolves,
\* isBlurry is true exactly for a score below 100 and runOCR invokes
\* recognition; and with any other blur score the outcome of preprocessImage
\* would differ in nothing but isBlurry.
C10_BlurNeverGates ==
  (oCanvas.ctx /\ (oCanvas.rotatedCtx \/ DetectRotation(oImage.edges[1], oImage.edges[2]) = 0))
  => /\ {oPre.results[k].strategy : k \in 1..Len(oPre.results)} = oCanvas.testCtxs
     /\ oCanvas.testCtxs # {}
          => /\ oPre.status = "resolved" /\ oCalls.recognize = 1
             /\ oPre.isBlurry = (oImage.blur \in {<<0, 1>>, <<4, 1>>, <<999, 100>>})
     /\ \A blur \in {<<0, 0>>, <<0, 1>>, <<4, 1>>, <<10, 1>>, <<999, 100>>} :
          LET other == ImgOnload([oImage EXCEPT !.blur = blur], oCanvas)
          IN [other EXCEPT !.isBlurry = oPre.isBlurry] = oPre

\* An image with Laplacian score 40 is flagged blurry, all four strategies
\* were evaluated and runOCR returned the recognized text.
C10_Witness ==
  /\ oImage.kind # "none" /\ oImage.blur = <<4, 1>>
  /\ oOut.status = "returned"
  /\ oOut.isBlurry
  /\ Len(oPre.results) = 4
  /\ oCalls.recognize = 1

\* C5: when runOCR fails on a page of a document, the scan ends there: the
\* failing step sets the error, clears isProcessing and leaves medications,
\* patientInfo and ocrResult as they were, so nothing extracted from the
\* earlier pages is published; no page after the failing one is started, and
\* the failed scan never acts again.
C5_PageFailureAbortsDocument ==
  /\ [](\A s \in DOMAIN scans :
          scans[s].outcome = "ocrFailed"
          => /\ scans[s].pc = "done" /\ scans[s].inFlight = {}
             /\ Len(scans[s].texts) < scans[s].pages
             /\ Len(scans[s].started) = Len(scans[s].texts) + 1)
  /\ [][\A s \in DOMAIN scans :
          /\ scans[s].outcome = "ocrFailed" => scans'[s] = scans[s]
          /\ (scans[s].pc = "ocr" /\ scans'[s].outcome = "ocrFailed")
             => /\ error' \in {Some(m) : m \in RunOCRErrors}
                /\ ~isProcessing'
                /\ medications' = medications
                /\ patientInfo' = patientInfo
                /\ ocrResult' = ocrResult]_vars

\* A two-page document whose first page gave a medication and whose second
\* page failed: the error is shown and no medication or patient is published.
C5_Witness ==
  \E s \in DOMAIN scans :
    /\ scans[s].outcome = "ocrFailed"
    /\ scans[s].pages = 2 /\ Len(scans[s].texts) = 1
    /\ scans[s].allMedications # << >>
    /\ error = Some("Failed to extract text from image")
    /\ medications = << >> /\ patientInfo = Null /\ ~isProcessing

\* C6: within one scan the pages are started in the order 1, 2, ..., at most
\* one runOCR is in flight, and while page N+1 is in flight the texts of
\* pages 1..N have been recognized and their medications appended.
C6_PagesInOrderOneAtATime ==
  \A s \in DOMAIN scans :
    LET scan == scans[s]
        extracted[k \in 0..Len(scan.texts)] ==
          IF k = 0 THEN << >> ELSE extracted[k - 1] \o parsed[scan.texts[k]].medications
    IN /\ Cardinality(scan.inFlight) <= 1
       /\ scan.started = [k \in 1..Len(scan.started) |-> k]
       /\ scan.inFlight # {}
            => scan.inFlight = {Len(scan.started)} /\ Len(scan.texts) = Len(scan.started) - 1
       /\ scan.allMedications = extracted[Len(scan.texts)]

\* Page 2 of a two-page document is in flight after page 1 gave a medication.
C6_Witness ==
  \E s \in DOMAIN scans :
    /\ scans[s].pages = 2 /\ scans[s].inFlight = {2}
    /\ Len(scans[s].texts) = 1 /\ scans[s].allMedications # << >>

\* C7: a scan extracts patient identity at most once, exactly once as soon as
\* its first page is recognized, and what it holds is the extraction from the
\* first page's text; the component's patientInfo changes to a value only in
\* the step that finishes a scan, and then to that scan's first-page
\* extraction, so one document publishes at most one identity.
C7_PatientFromFirstPageOnce ==
  /\ [](\A s \in DOMAIN scans :
          /\ scans[s].extractions = (IF Len(scans[s].texts) >= 1 THEN 1 ELSE 0)
          /\ scans[s].patientInfoFromPDF =
               IF Len(scans[s].texts) >= 1 THEN Some(parsed[scans[s].texts[1]].patient)
               ELSE Null)
  /\ [][(patientInfo' # patientInfo /\ patientInfo' # Null)
        => \E s \in DOMAIN scans :
             /\ scans[s].outcome = "none" /\ scans'[s].outcome = "published"
             /\ patientInfo' = Some(parsed[scans'[s].texts[1]].patient)]_vars

\* A two-page document whose first page names no patient and whose second
\* page does: one extraction was made and no identity is published.
C7_Witness ==
  \E s \in DOMAIN scans :
    /\ scans[s].outcome = "published" /\ scans[s].pages = 2
    /\ DOMAIN parsed[scans[s].texts[1]].patient = {}
    /\ DOMAIN parsed[scans[s].texts[2]].patient # {}
    /\ scans[s].extractions = 1
    /\ patientInfo \in {Null, Some(parsed[scans[s].texts[1]].patient)}

\* C8: a lookup never ends with an error: whatever the fetches and bodies do,
\* the call is either still pending or has returned, and what it returned is
\* null or a record of the registry it queried last.
C8_LookupNeverThrows ==
  /\ lResult.status \in {"pending", "returned"}
  /\ (lPc = "done") = (lResult.status = "returned")
  /\ lResult.status = "returned"
       => \/ lResult.value = Null
          \/ /\ lQueries # << >>
             /\ lResult.value = Some([registry |-> lQueries[Len(lQueries)].registry,
                                      candidate |-> lQueries[Len(lQueries)].candidate])

\* A UPC lookup in which every one of the eight queries raised an exception
\* returned null.
C8_Witness ==
  /\ lKind = "upc" /\ lPc = "done"
  /\ Len(lQueries) = 8
  /\ \A k \in 1..8 : lQueries[k].outcome = "error"
  /\ lResult = Returned(Null)

\* C9: the queries issued are a prefix of the fixed order (NDC: the formats of
\* convertToNDCFormat in its order; UPC: all variants against openfoodfacts,
\* then all variants against upcitemdb); only the last one can be pending or a
\* hit, so a query is issued only after every earlier one failed; a finished
\* call returned the record of its hit, or null after the whole order failed.
C9_FixedOrderFirstHitWins ==
  LET formats == ConvertToNDCFormat(lCode)
      digits == OnlyDigits(lCode)
      variants == UpcVariants(digits)
      order == CASE lKind = "ndc" -> [k \in 1..Len(formats) |-> <<"fda", formats[k]>>]
                 [] lKind = "upc" /\ Len(digits) >= 8 ->
                      [k \in 1..8 |-> IF k <= 4 THEN <<"openfoodfacts", variants[k]>>
                                      ELSE <<"upcitemdb", variants[k - 4]>>]
                 [] OTHER -> << >>
      n == Len(lQueries)
  IN /\ n <= Len(order)
     /\ \A k \in 1..n : <<lQueries[k].registry, lQueries[k].candidate>> = order[k]
     /\ \A k \in 1..(n - 1) : lQueries[k].outcome \in {"error", "miss"}
     /\ lPc \in {"fetch", "json"} <=> (n > 0 /\ lQueries[n].outcome = "pending")
     /\ lPc = "done"
          => IF n > 0 /\ lQueries[n].outcome = "hit"
             THEN lResult = Returned(Some([registry |-> order[n][1], candidate |-> order[n][2]]))
             ELSE IF n > 0 /\ lQueries[n].outcome = "hitNull" THEN lResult = Returned(Null)
             ELSE n = Len(order) /\ lResult = Returned(Null)

\* A UPC lookup whose four openfoodfacts queries failed returned the record of
\* the second upcitemdb query without issuing the remaining two.
C9_Witness ==
  /\ lKind = "upc" /\ lPc = "done"
  /\ Len(lQueries) = 6
  /\ lQueries[6].outcome = "hit"
  /\ lResult = Returned(Some([registry |-> "upcitemdb", candidate |-> lQueries[6].candidate]))

\* C11: when preprocessImage resolves, the selected strategy is, among the
\* strategies evaluated, the one with the highest edge count, and among those
\* of equal highest count the one listed earliest in standard, high-contrast,
\* denoise, aggressive; with all four evaluated at zero it is standard; and
\* runOCR reports that strategy.
C11_HighestEdgeCountEarliestWins ==
  oPre.status = "resolved"
  => LET evaluated == {k \in 1..Len(Strategies) : Strategies[k] \in oCanvas.testCtxs}
         best == CHOOSE k \in evaluated :
                   \A j \in evaluated :
                     \/ oImage.scores[k] > oImage.scores[j]
                     \/ oImage.scores[k] = oImage.scores[j] /\ k <= j
     IN /\ oPre.strategy = Strategies[best]
        /\ (Cardinality(evaluated) = 4 /\ oImage.scores = <<0, 0, 0, 0>>)
             => oPre.strategy = "standard"
        /\ oOut.status = "returned" => oOut.preprocessingStrategy = Strategies[best]

\* All four strategies were evaluated with edge counts 2, 5, 5, 0:
\* high-contrast, the earlier of the two with count 5, was selected.
C11_Witness ==
  /\ oPre.status = "resolved"
  /\ oCanvas.testCtxs = {"standard", "high-contrast", "denoise", "aggressive"}
  /\ oImage.scores = <<2, 5, 5, 0>>
  /\ oPre.strategy = "high-contrast"
  /\ oOut.status = "returned"

\* C12: once the image is decoded and drawn (the canvas has its context and,
\* for a rotated image, so has the rotated canvas), preprocessImage resolves
\* with a non-empty candidate list, whichever test canvases got a context.
C12_SelectionNeverFails ==
  (oCanvas.ctx /\ (oCanvas.rotatedCtx \/ DetectRotation(oImage.edges[1], oImage.edges[2]) = 0))
  => /\ oPre.status = "resolved"
     /\ oPre.results # << >>

\* C13: when parseMedicationFromText has run, each of dosage, frequency, route
\* and prescriber holds the value of the first pattern of its list that matches
\* anywhere in the text, wherever the later patterns of the list match, and is
\* unset when no pattern of the list matches.
C13_FirstPatternOfListWins ==
  pStage = "done"
  => /\ \A k \in 1..Len(DosagePatterns) :
          LET m == Match(pText, DosagePatterns[k])
              m0 == Whole(pText, m)
          IN (m.found /\ \A j \in 1..(k - 1) : ~Test(DosagePatterns[j], pText))
             => /\ "dosage" \in DOMAIN medication
                /\ medication["dosage"]
                     = Cap(pText, m, 1) \o " " \o Whole(m0, Match(m0, UnitRe))
     /\ \A k \in 1..Len(FrequencyPatterns) :
          LET m == Match(pText, FrequencyPatterns[k])
          IN (m.found /\ \A j \in 1..(k - 1) : ~Test(FrequencyPatterns[j], pText))
             => /\ "frequency" \in DOMAIN medication
                /\ medication["frequency"] = Trim(Whole(pText, m))
     /\ \A k \in 1..Len(RoutePatterns) :
          LET m == Match(pText, RoutePatterns[k])
          IN (m.found /\ \A j \in 1..(k - 1) : ~Test(RoutePatterns[j], pText))
             => /\ "route" \in DOMAIN medication
                /\ medication["route"] = Cap(pText, m, 1)
     /\ \A k \in 1..Len(PrescriberPatterns) :
          LET m == Match(pText, PrescriberPatterns[k])
          IN (m.found /\ \A j \in 1..(k - 1) : ~Test(PrescriberPatterns[j], pText))
             => /\ "prescriber" \in DOMAIN medication
                /\ medication["prescriber"] = Trim(Whole(pText, m))
     /\ (\A k \in 1..Len(DosagePatterns) : ~Test(DosagePatterns[k], pText))
          => "dosage" \notin DOMAIN medication
     /\ (\A k \in 1..Len(FrequencyPatterns) : ~Test(FrequencyPatterns[k], pText))
          => "frequency" \notin DOMAIN medication
     /\ (\A k \in 1..Len(RoutePatterns) : ~Test(RoutePatterns[k], pText))
          => "route" \notin DOMAIN medication
     /\ (\A k \in 1..Len(PrescriberPatterns) : ~Test(PrescriberPatterns[k], pText))
          => "prescriber" \notin DOMAIN medication

\* A label in which, for each of the four fields, a later pattern of the list
\* matches at an earlier position than the first one: the values are those of
\* the first patterns.
C13_Witness ==
  /\ pStage = "done"
  /\ Match(pText, DosagePatterns[1]).found
  /\ Match(pText, DosagePatterns[2]).index < Match(pText, DosagePatterns[1]).index
  /\ Match(pText, FrequencyPatterns[1]).found /\ Match(pText, FrequencyPatterns[3]).found
  /\ Match(pText, FrequencyPatterns[3]).index < Match(pText, FrequencyPatterns[1]).index
  /\ Match(pText, RoutePatterns[1]).found /\ Match(pText, RoutePatterns[2]).found
  /\ Match(pText, RoutePatterns[2]).index < Match(pText, RoutePatterns[1]).index
  /\ Match(pText, PrescriberPatterns[1]).found /\ Match(pText, PrescriberPatterns[2]).found
  /\ Match(pText, PrescriberPatterns[2]).index < Match(pText, PrescriberPatterns[1]).index
  /\ medication["dosage"] = "5 mg"
  /\ medication["frequency"] = "Take 1 tablet"
  /\ medication["route"] = "mouth"
  /\ medication["prescriber"] = "Dr. John Smith"

\* C14: the name parseMedicationFromText returns, whichever of the four
\* strategies set it, is not contained (case-insensitively) in the extracted
\* frequency, route, instructions or quantity.
C14_NameNotConsumed ==
  (pStage = "done" /\ Truthy(medication, "name"))
  => \A f \in {"frequency", "route", "instructions", "quantity"} :
       Truthy(medication, f)
       => ~Includes(ToLowerCase(medication[f]), ToLowerCase(medication["name"]))

\* C15: parseMultipleMedications takes its multiple branch exactly for a text
\* with at least two prescription numbers, or a line that begins with a bullet
\* glyph (an asterisk or U+2022) and a space, or a line that begins with
\* "<number>. <Capital>".
C15_MultipleIffMarkers ==
  mDone
  => ((mClass = "multiple")
      <=> \/ MatchAllCount(mText, RxNumberRe) >= 2
          \/ Test(Cat(<<Bol(TRUE), Ch({"*", U2022}), Ch(Spaces)>>), mText)
          \/ Test(NumberedListRe, mText))

\* C16: for a text classified single the call returns the extraction of the
\* whole text as a one-element list when it has a name, a dosage or a
\* frequency, and the empty list otherwise.
C16_SingleKeptIffKeyField ==
  (mDone /\ mClass = "single")
  => LET whole == ParseMedicationFromText(mText)
     IN IF \E f \in {"name", "dosage", "frequency"} : f \in DOMAIN whole /\ whole[f] # ""
        THEN mResult = <<whole>>
        ELSE mResult = << >>

\* A single text from which only other fields were extracted gave the empty
\* list.
C16_Witness ==
  /\ mDone /\ mClass = "single"
  /\ mResult = << >>
  /\ DOMAIN ParseMedicationFromText(mText) # {}

\* C17: when a text classified multiple has a section that qualifies (longer
\* than 20 characters after trimming, and extracted with a name and at least
\* one of dosage, frequency, route), the call returns exactly the extractions
\* of the qualifying sections, in section order.
C17_SectionsKeptInOrder ==
  (mDone /\ mClass = "multiple")
  => LET sections == SplitRe(mText, SectionSplitRe, 1)
         Med(k) == ParseMedicationFromText(Trim(sections[k]))
         kept == {k \in 1..Len(sections) :
                    /\ Len(Trim(sections[k])) > 20
                    /\ Truthy(Med(k), "name")
                    /\ \E f \in {"dosage", "frequency", "route"} : Truthy(Med(k), f)}
     IN kept # {}
        => /\ Len(mResult) = Cardinality(kept)
           /\ \A i \in 1..Len(mResult) :
                \E k \in kept : /\ Cardinality({j \in kept : j < k}) = i - 1
                                 /\ mResult[i] = Med(k)

\* Three sections, the second a valid but short one: the first and the third
\* were returned, in that order.
C17_Witness ==
  /\ mDone /\ mClass = "multiple"
  /\ Len(SplitRe(mText, SectionSplitRe, 1)) = 3
  /\ Len(mResult) = 2
  /\ mResult[1]["name"] = "Lisinopril"
  /\ mResult[2]["name"] = "Metformin"
  /\ Truthy(ParseMedicationFromText(Trim(SplitRe(mText, SectionSplitRe, 1)[2])), "name")

\* C18: for the bottle label "Lisinopril 10mg / Take 1 tablet by mouth once
\* daily / Qty: 30 / Refills: 2", extraction and scoring give exactly one
\* candidate: name Lisinopril, dosage 10 mg, a frequency containing "once
\* daily", route mouth, quantity 30, refills 2, confidence 100.
C18_BottleLabelScenario ==
  (mScored # Null
   /\ mText = "Lisinopril 10mg\nTake 1 tablet by mouth once daily\nQty: 30\nRefills: 2")
  => /\ Len(mScored[1]) = 1
     /\ LET med == mScored[1][1]
        IN /\ {"name", "dosage", "frequency", "route", "quantity", "refills"} \subseteq DOMAIN med
           /\ med["name"] = "Lisinopril"
           /\ med["dosage"] = "10 mg"
           /\ Includes(ToLowerCase(med["frequency"]), "once daily")
           /\ med["route"] = "mouth"
           /\ med["quantity"] = "30"
           /\ med["refills"] = "2"
           /\ med["confidence"] = 100

\* C19: a text with two lines that each start with a prescription number is
\* classified multiple and yields two candidates, each with the confidence of
\* its own fields.
C19_TwoPrescriptionsTwoCandidates ==
  LET lines == SplitOn(mText, "\n", 1)
  IN (mScored # Null
      /\ Cardinality({k \in 1..Len(lines) : Test(Cat(<<Bol(FALSE), RxNumberRe>>), lines[k])}) = 2)
     => /\ mClass = "multiple"
        /\ Len(mResult) = 2
        /\ Len(mScored[1]) = 2
        /\ \A k \in 1..2 :
             mScored[1][k]["confidence"] = GetMedicationConfidence(mResult[k])

\* C20: the formats lookupMedicationByNDC gets from convertToNDCFormat hold no
\* entry twice, and for the code 12345678901 they are, as a set, exactly
\* 1234-5678-90, 1234-5678, 12345-678-90, 12345-678, 12345-6789-0, 12345-6789.
C20_NDCFormatsFixedAndUnique ==
  (lKind = "ndc" /\ lPc \notin {"idle", "start"})
  => /\ lCandidates = ConvertToNDCFormat(lCode)
     /\ \A i, j \in 1..Len(lCandidates) : lCandidates[i] = lCandidates[j] => i = j
     /\ lCode = "12345678901"
          => {lCandidates[k] : k \in 1..Len(lCandidates)}
               = {"1234-5678-90", "1234-5678", "12345-678-90", "12345-678",
                  "12345-6789-0", "12345-6789"}

\* The formats of 12345678901 were all queried, six of them.
C20_Witness ==
  /\ lKind = "ndc" /\ lCode = "12345678901"
  /\ lPc = "done"
  /\ Len(lCandidates) = 6
  /\ Len(lQueries) = 6

\* C25 as stated: when runOCR has finished with a worker created,
\* worker.terminate has been invoked exactly once.
C25_TerminateExactlyOnce ==
  (oPc = "done" /\ oWorker # "none") => oCalls.terminate = 1

\* C25, amended: worker.terminate is invoked exactly once on every path but
\* one: when the terminate call of the try block itself fails, the catch block
\* invokes it a second time.  So the count is 1 when runOCR returns and 1 or 2
\* when it throws, it never exceeds 2, and it becomes 2 exactly in the step
\* where the first terminate rejects.
C25_TerminateOnceOrRetried ==
  /\ [](/\ oCalls.terminate <= 2
        /\ (oPc = "done" /\ oWorker # "none") => oCalls.terminate >= 1
        /\ (oPc = "done" /\ oOut.status = "returned") => oCalls.terminate = 1
        /\ oCalls.recognize = 0 => oCalls.terminate <= 1)
  /\ [][/\ (oPc = "terminate" /\ oPc' # "done") => oCalls'.terminate = 2
        /\ (oCalls'.terminate = 2 /\ oCalls.terminate # 2) => oPc = "terminate"
        /\ (oPc = "recognize" /\ oPc' = "catchTerminate") => oCalls'.terminate = 1]_vars

\* The terminate of the try block rejected and runOCR threw after a second
\* invocation from the catch block.
C25_Witness ==
  /\ oPc = "done" /\ oOut.status = "thrown"
  /\ oPre.status = "resolved"
  /\ oCalls.recognize = 1
  /\ oCalls.terminate = 2

\* C21: whenever runOCR throws, the message of the error is "Failed to extract
\* text from image".
C21_SingleTerminalMessage ==
  oOut.status = "thrown" => oOut.message = "Failed to extract text from image"

C24_ScanFinishesNotProcessing ==
  /\ \A s \in Scans :
       (scans[s].pc \in {"convert", "ocr"})
         ~> (scans[s].pc = "done"
             /\ scans[s].outcome \in {"published", "convertFailed", "ocrFailed"})
  /\ [][\A s \in Scans :
          (scans[s].pc \in {"convert", "ocr"} /\ scans'[s].pc = "done")
          => /\ ~isProcessing'
             /\ scans'[s].outcome = "published" \/ error' # Null]_vars

\* A scan ended because the PDF could not be rendered: the error is shown and
\* isProcessing is false.
C24_Witness ==
  \E s \in DOMAIN scans :
    /\ scans[s].outcome = "convertFailed"
    /\ error = Some("PDF rendering failed")
    /\ ~isProcessing

\* C26: scanImage clears everything published when it starts, so results
\* that are published while an invocation of useOCR is suspended come from
\* another invocation that overlapped it.  When such an invocation finishes
\* as the last one, there is one scan that everything then published derives
\* from: the medications, the ocrResult and the patient info are what that
\* scan extracted, and an error is shown only if that scan failed.
C26_OverlappingScansOneSource ==
  [][\A s \in DOMAIN scans :
       (/\ sComponent = "useOCR"
        /\ scans[s].pc \in {"convert", "ocr"} /\ scans'[s].pc = "done"
        /\ \A t \in DOMAIN scans : scans'[t].pc \in {"idle", "done"}
        /\ medications # << >> \/ ocrResult # Null \/ patientInfo # Null)
       => \E t \in DOMAIN scans :
            /\ medications' # << >>
                 => /\ scans'[t].outcome = "published"
                    /\ medications' = WithConfidence(scans'[t].allMedications)
            /\ ocrResult' # Null
                 => /\ scans'[t].outcome = "published"
                    /\ ocrResult' = scans'[t].combinedOCRResult
            /\ patientInfo' # Null
                 => /\ scans'[t].outcome = "published"
                    /\ patientInfo' = scans'[t].patientInfoFromPDF
            /\ error' # Null => scans'[t].outcome # "published"]_vars

\* C30: within one lookup call no candidate is requested twice from the same
\* registry: no two queries issued by the call have the same registry and the
\* same candidate string.
C30_NoCandidateRequestedTwice ==
  \A i, j \in DOMAIN lQueries :
     (lQueries[i].registry = lQueries[j].registry
        /\ lQueries[i].candidate = lQueries[j].candidate) => i = j

\* C22: once all the notification migrations have run, a SELECT by a user
\* returns only rows whose user_id is that user's.
C22_UsersReadOwnRowsOnly ==
  (rlsSeen # Null /\ rlsSeen[1].applied = Len(Migrations) /\ rlsSeen[1].actor \in Users)
  => \A i \in rlsSeen[1].rows : rlsRows[i] = rlsSeen[1].actor

\* C27: whatever the number of callbacks subscribed for a user, an INSERT
\* for that user invokes every callback that was subscribed when the row was
\* inserted and still is exactly once, as soon as no channel has the event
\* left to handle.
C27_EachCallbackOncePerInsert ==
  \A c \in DOMAIN nComps : \A n \in DOMAIN nTable :
     (/\ nComps[c].mounted
      /\ nTable[n] = nComps[c].userId
      /\ n > nComps[c].since
      /\ \A k \in DOMAIN nChannels :
           \A i \in DOMAIN nChannels[k].queue : nChannels[k].queue[i] # n)
     => Cardinality({i \in DOMAIN nComps[c].calls : nComps[c].calls[i] = n}) = 1

\* C28: once every unsubscribe function handed out for a user has been
\* called, the listeners map has no entry for the user and every channel
\* opened for the user has been unsubscribed.
C28_AllUnsubscribedNothingLeft ==
  \A u \in Users :
     (/\ \E c \in DOMAIN nComps : nComps[c].userId = u
      /\ \A c \in DOMAIN nComps : nComps[c].userId = u => ~nComps[c].mounted)
     => /\ nListeners[u] = Null
        /\ \A k \in DOMAIN nChannels :
             nChannels[k].userId = u => nChannels[k].state = "unsubscribed"

\* C29: a notification that the realtime callback of a mounted component
\* received stays in the component's notifications, however the responses
\* of loadNotifications and loadUnreadCount interleave with it.
C29_DeliveredNotificationKept ==
  \A c \in DOMAIN nComps :
     nComps[c].mounted
     => \A i \in DOMAIN nComps[c].calls :
          \E j \in DOMAIN nComps[c].notifications :
             nComps[c].notifications[j] = nComps[c].calls[i]

=============================================================================
